---- MODULE Spec2Model ----
(***************************************************************************)
(* Query-safety gateway of the Rick and Morty client: the fixed-window     *)
(* rate limiter, the query validator, the secure Apollo hooks and the      *)
(* error/audit-log utilities, modelled from lib/security/graphql-security, *)
(* lib/security/secure-query-utils, lib/security/secure-apollo-hooks and   *)
(* hooks/useRickAndMorty.                                                  *)
(***************************************************************************)
EXTENDS Integers, Sequences, FiniteSets, TLC

\* ------------------------------------------------------------------------
\* Bounds of the model
\* ------------------------------------------------------------------------
MaxLimit == 2
MaxTicks == 4
MaxCalls == 4
MaxOps == 3

\* ------------------------------------------------------------------------
\* Program constants
\* ------------------------------------------------------------------------
windowMs == 60 * 1000
TickMs == windowMs \div 2
Identifiers == {"default", "userA"}

VARIABLES
    RATE_LIMIT,     \* parseInt(process.env.NEXT_PUBLIC_RATE_LIMIT || '60')
    NODE_ENV,       \* process.env.NODE_ENV
    now,            \* Date.now()
    rateLimitMap,   \* Map<string, RateLimitInfo>: a function on the keys present
    isolatedMap,    \* per identifier, the map of a limiter that serves only that identifier
    history,        \* every checkRateLimit call so far: identifier, time, map before, result
    sq,             \* the useSecureQuery instance: props of the last render and its useState
    transport,      \* operations handed to the Apollo client and not yet settled
    opCount,        \* operations started by the caller so far
    lastOp,         \* what the last step did: verdicts, dispatches, deliveries to the caller
    consoleOut,     \* the lines the last step wrote to console.log
    argument,       \* the value a library function is called with
    returned,       \* the function called last and what it returned
    gq,             \* the useSecureGraphQLQuery instance: its useState and its last run
    fetches         \* the calls of httpLink's fetch so far, each with its timer

rateVars == <<rateLimitMap, isolatedMap, history>>
hookVars == <<sq, transport, opCount>>
outVars == <<lastOp, consoleOut>>
callVars == <<argument, returned>>
utilVars == <<gq, fetches>>
vars == <<RATE_LIMIT, NODE_ENV, now, rateLimitMap, isolatedMap, history,
          sq, transport, opCount, lastOp, consoleOut, argument, returned, gq, fetches>>

Max(a, b) == IF a >= b THEN a ELSE b

EmptyMap == [k \in {} |-> [count |-> 0, resetTime |-> 0]]

MapSet(map, key, value) ==
    [k \in (DOMAIN map) \cup {key} |-> IF k = key THEN value ELSE map[k]]

\* ------------------------------------------------------------------------
\* checkRateLimit: returns the result and the map it leaves behind
\* ------------------------------------------------------------------------
checkRateLimit_offByOne(map, identifier, limit, t) ==
    LET stored == identifier \in DOMAIN map
        rateLimitInfo == IF ~stored \/ t > map[identifier].resetTime
                         THEN [count |-> 0, resetTime |-> t + windowMs]
                         ELSE map[identifier]
    IN  IF rateLimitInfo.count > limit
        THEN [allowed |-> FALSE, remaining |-> 0,
              resetTime |-> rateLimitInfo.resetTime, map |-> map]
        ELSE LET incremented == [rateLimitInfo EXCEPT !.count = @ + 1]
             IN  [allowed |-> TRUE, remaining |-> limit - incremented.count,
                  resetTime |-> incremented.resetTime,
                  map |-> MapSet(map, identifier, incremented)]

checkRateLimit_resetAtBoundary(map, identifier, limit, t) ==
    LET stored == identifier \in DOMAIN map
        rateLimitInfo == IF ~stored \/ t >= map[identifier].resetTime
                         THEN [count |-> 0, resetTime |-> t + windowMs]
                         ELSE map[identifier]
    IN  IF rateLimitInfo.count >= limit
        THEN [allowed |-> FALSE, remaining |-> 0,
              resetTime |-> rateLimitInfo.resetTime, map |-> map]
        ELSE LET incremented == [rateLimitInfo EXCEPT !.count = @ + 1]
             IN  [allowed |-> TRUE, remaining |-> limit - incremented.count,
                  resetTime |-> incremented.resetTime,
                  map |-> MapSet(map, identifier, incremented)]

checkRateLimit_sharedKey(map, identifier, limit, t) ==
    LET stored == "default" \in DOMAIN map
        rateLimitInfo == IF ~stored \/ t > map["default"].resetTime
                         THEN [count |-> 0, resetTime |-> t + windowMs]
                         ELSE map["default"]
    IN  IF rateLimitInfo.count >= limit
        THEN [allowed |-> FALSE, remaining |-> 0,
              resetTime |-> rateLimitInfo.resetTime, map |-> map]
        ELSE LET incremented == [rateLimitInfo EXCEPT !.count = @ + 1]
             IN  [allowed |-> TRUE, remaining |-> limit - incremented.count,
                  resetTime |-> incremented.resetTime,
                  map |-> MapSet(map, "default", incremented)]

checkRateLimit_noPersist(map, identifier, limit, t) ==
    LET stored == identifier \in DOMAIN map
        rateLimitInfo == IF ~stored \/ t > map[identifier].resetTime
                         THEN [count |-> 0, resetTime |-> t + windowMs]
                         ELSE map[identifier]
    IN  IF rateLimitInfo.count >= limit
        THEN [allowed |-> FALSE, remaining |-> 0,
              resetTime |-> rateLimitInfo.resetTime, map |-> map]
        ELSE LET incremented == [rateLimitInfo EXCEPT !.count = @ + 1]
             IN  [allowed |-> TRUE, remaining |-> limit - incremented.count,
                  resetTime |-> incremented.resetTime,
                  map |-> map]

\* a mutant with a sliding window: a denied call restarts the window
checkRateLimit_slidingWindow(map, identifier, limit, t) ==
    LET stored == identifier \in DOMAIN map
        rateLimitInfo == IF ~stored \/ t > map[identifier].resetTime
                         THEN [count |-> 0, resetTime |-> t + windowMs]
                         ELSE map[identifier]
    IN  IF rateLimitInfo.count >= limit
        THEN [allowed |-> FALSE, remaining |-> 0,
              resetTime |-> t + windowMs,
              map |-> MapSet(map, identifier,
                             [rateLimitInfo EXCEPT !.resetTime = t + windowMs])]
        ELSE LET incremented == [rateLimitInfo EXCEPT !.count = @ + 1]
             IN  [allowed |-> TRUE, remaining |-> limit - incremented.count,
                  resetTime |-> incremented.resetTime,
                  map |-> MapSet(map, identifier, incremented)]

checkRateLimit(map, identifier, limit, t) ==
    LET stored == identifier \in DOMAIN map
        \* Reset if window has passed
        rateLimitInfo == IF ~stored \/ t > map[identifier].resetTime
                         THEN [count |-> 0, resetTime |-> t + windowMs]
                         ELSE map[identifier]
    IN  IF rateLimitInfo.count >= limit
        THEN [allowed |-> FALSE, remaining |-> 0,
              resetTime |-> rateLimitInfo.resetTime, map |-> map]
        ELSE LET incremented == [rateLimitInfo EXCEPT !.count = @ + 1]
             IN  [allowed |-> TRUE, remaining |-> limit - incremented.count,
                  resetTime |-> incremented.resetTime,
                  map |-> MapSet(map, identifier, incremented)]

\* One call of the exported checkRateLimit(identifier) at the current time.
\* The isolated limiter of the identifier sees the same call and nothing else.
RateLimitStep(identifier) ==
    LET r == checkRateLimit(rateLimitMap, identifier, RATE_LIMIT, now)
        alone == checkRateLimit(isolatedMap[identifier], identifier, RATE_LIMIT, now)
    IN  /\ rateLimitMap' = r.map
        /\ isolatedMap' = [isolatedMap EXCEPT ![identifier] = alone.map]
        /\ history' = Append(history,
                [id |-> identifier, now |-> now, before |-> rateLimitMap,
                 after |-> r.map,
                 allowed |-> r.allowed, remaining |-> r.remaining,
                 resetTime |-> r.resetTime,
                 alone |-> [allowed |-> alone.allowed, remaining |-> alone.remaining,
                            resetTime |-> alone.resetTime]])

CheckRateLimit(identifier) ==
    /\ Len(history) < MaxCalls
    /\ RateLimitStep(identifier)
    /\ UNCHANGED <<callVars, RATE_LIMIT, NODE_ENV, utilVars, now, hookVars, outVars>>

AdvanceTime ==
    /\ now < MaxTicks * TickMs
    /\ now' = now + TickMs
    /\ UNCHANGED <<callVars, RATE_LIMIT, NODE_ENV, utilVars, rateVars, hookVars, outVars>>

Unmounted ==
    [mounted |-> FALSE, query |-> "none", variables |-> "none", skip |-> FALSE,
     onError |-> FALSE, isQueryValid |-> TRUE, effectPending |-> FALSE]

\* what the last step did: the hook and callback that ran, its inputs, the
\* verdicts it computed, the requests it handed to Apollo and what it gave
\* back to its caller
NoOp ==
    [hook |-> "none", step |-> "none", query |-> "none", variables |-> "none",
     skip |-> FALSE, valid |-> TRUE, safe |-> TRUE, threw |-> FALSE,
     dispatched |-> <<>>, error |-> <<>>, delivered |-> <<>>]

\* useState of useSecureGraphQLQuery, and no run of executeQuery yet
NotRendered ==
    [state |-> [loading |-> FALSE, error |-> <<>>, rateLimited |-> FALSE,
                validationErrors |-> <<>>],
     path |-> "none", stages |-> <<>>, delivered |-> <<>>,
     query |-> "none", variables |-> "none"]

\* no library function was called directly yet
NoCall == [fn |-> "none", threw |-> FALSE, value |-> <<>>]

InitCommon ==
    /\ RATE_LIMIT \in 0..MaxLimit
    /\ now = 0
    /\ rateLimitMap = EmptyMap
    /\ isolatedMap = [i \in Identifiers |-> EmptyMap]
    /\ history = <<>>
    /\ sq = Unmounted
    /\ transport = {}
    /\ opCount = 0
    /\ lastOp = NoOp
    /\ consoleOut = <<>>
    /\ returned = NoCall
    /\ gq = NotRendered
    /\ fetches = <<>>

InitRateLimit ==
    /\ InitCommon
    /\ argument = <<>>
    /\ NODE_ENV = "test"

NextRateLimit ==
    \/ \E identifier \in Identifiers : CheckRateLimit(identifier)
    \/ AdvanceTime

SpecRateLimit == InitRateLimit /\ [][NextRateLimit]_vars


\* ------------------------------------------------------------------------
\* Query documents (DocumentNode) and the structural analysis
\* ------------------------------------------------------------------------
MAX_QUERY_DEPTH == 10
MAX_QUERY_COMPLEXITY == 1000

\* A selection set is absent (present = FALSE) or present; a present one has
\* a `selections` array unless the document is malformed.
NoSelectionSet == [present |-> FALSE, selectionsPresent |-> FALSE, selections |-> <<>>]
SelectionSet(sels) == [present |-> TRUE, selectionsPresent |-> TRUE, selections |-> sels]
MalformedSelectionSet == [present |-> TRUE, selectionsPresent |-> FALSE, selections |-> <<>>]

Field(selectionSet) == [kind |-> "Field", selectionSet |-> selectionSet]
OperationDefinition(operation, selectionSet) ==
    [kind |-> "OperationDefinition", operation |-> operation, selectionSet |-> selectionSet]
Document(defs) == [kind |-> "Document", definitionsPresent |-> TRUE, definitions |-> defs]
\* { kind: 'Document' }: a document without a definitions array
DocumentWithoutDefinitions ==
    [kind |-> "Document", definitionsPresent |-> FALSE, definitions |-> <<>>]
\* null in the place of a definition or of a selection
NullNode == [kind |-> "null", selectionSet |-> NoSelectionSet]

\* createMockQuery(depth): a chain of single-field selection sets
RECURSIVE MockSelectionSet(_)
MockSelectionSet(depth) ==
    IF depth <= 1
    THEN SelectionSet(<<Field(NoSelectionSet)>>)
    ELSE SelectionSet(<<Field(MockSelectionSet(depth - 1))>>)

createMockQuery(depth) ==
    Document(<<OperationDefinition("query", MockSelectionSet(depth))>>)

createEmptyQuery == Document(<<>>)

\* Math.max() of no arguments is -Infinity; every depth is >= 0
NegInfinity == 0 - 1

RECURSIVE MaxOfSeq(_)
MaxOfSeq(seq) ==
    IF seq = <<>> THEN NegInfinity ELSE Max(Head(seq), MaxOfSeq(Tail(seq)))

RECURSIVE SumOfSeq(_)
SumOfSeq(seq) ==
    IF seq = <<>> THEN 0 ELSE Head(seq) + SumOfSeq(Tail(seq))

\* reading `.selections.map` / `.selections.reduce` of a selection set
\* without a selections array raises a TypeError, and so does reading
\* `.selectionSet` of null
RECURSIVE SelectionThrows(_)
SelectionThrows(selection) ==
    \/ selection.kind = "null"
    \/ /\ selection.selectionSet.present
       /\ \/ ~selection.selectionSet.selectionsPresent
          \/ \E i \in 1..Len(selection.selectionSet.selections) :
                 SelectionThrows(selection.selectionSet.selections[i])

DefinitionThrows(definition) ==
    \/ definition.kind = "null"
    \/ /\ definition.selectionSet.present
       /\ \/ ~definition.selectionSet.selectionsPresent
          \/ \E i \in 1..Len(definition.selectionSet.selections) :
                 SelectionThrows(definition.selectionSet.selections[i])

AnalysisThrows(query) ==
    /\ query.definitionsPresent
    /\ \E i \in 1..Len(query.definitions) : DefinitionThrows(query.definitions[i])

RECURSIVE analyzeSelectionDepth(_, _)
analyzeSelectionDepth(selection, currentDepth) ==
    IF selection.selectionSet.present
    THEN LET sels == selection.selectionSet.selections
             childDepth == MaxOfSeq([i \in 1..Len(sels) |->
                               analyzeSelectionDepth(sels[i], currentDepth + 1)])
         IN  Max(currentDepth, childDepth)
    ELSE currentDepth

\* a mutant that counts the top-level selections as level 0
analyzeQueryDepth_fromZero(query) ==
    IF ~query.definitionsPresent
    THEN 0
    ELSE LET defs == query.definitions
             perDefinition == [i \in 1..Len(defs) |->
                 IF defs[i].selectionSet.present
                 THEN LET sels == defs[i].selectionSet.selections
                      IN  MaxOfSeq([j \in 1..Len(sels) |-> analyzeSelectionDepth(sels[j], 0)])
                 ELSE 0]
         IN  Max(0, MaxOfSeq(perDefinition))

analyzeQueryDepth(query) ==
    IF ~query.definitionsPresent
    THEN 0
    ELSE LET defs == query.definitions
             perDefinition == [i \in 1..Len(defs) |->
                 IF defs[i].selectionSet.present
                 THEN LET sels == defs[i].selectionSet.selections
                      IN  MaxOfSeq([j \in 1..Len(sels) |-> analyzeSelectionDepth(sels[j], 1)])
                 ELSE 0]
         IN  Max(0, MaxOfSeq(perDefinition))

\* a mutant whose weight grows by one per level, not by a factor of two
RECURSIVE analyzeSelectionComplexity_linear(_, _)
analyzeSelectionComplexity_linear(selection, multiplier) ==
    IF selection.selectionSet.present
    THEN LET sels == selection.selectionSet.selections
         IN  multiplier + SumOfSeq([i \in 1..Len(sels) |->
                              analyzeSelectionComplexity_linear(sels[i], multiplier + 1)])
    ELSE multiplier

RECURSIVE analyzeSelectionComplexity(_, _)
analyzeSelectionComplexity(selection, multiplier) ==
    IF selection.selectionSet.present
    THEN LET sels == selection.selectionSet.selections
         IN  multiplier + SumOfSeq([i \in 1..Len(sels) |->
                              analyzeSelectionComplexity(sels[i], multiplier * 2)])
    ELSE multiplier

\* a mutant that starts the top-level selections with a multiplier of 2
analyzeQueryComplexity_topLevelTwo(query) ==
    IF ~query.definitionsPresent
    THEN 0
    ELSE LET defs == query.definitions
         IN  SumOfSeq([i \in 1..Len(defs) |->
                 IF defs[i].selectionSet.present
                 THEN LET sels == defs[i].selectionSet.selections
                      IN  SumOfSeq([j \in 1..Len(sels) |-> analyzeSelectionComplexity(sels[j], 2)])
                 ELSE 0])

analyzeQueryComplexity(query) ==
    IF ~query.definitionsPresent
    THEN 0
    ELSE LET defs == query.definitions
         IN  SumOfSeq([i \in 1..Len(defs) |->
                 IF defs[i].selectionSet.present
                 THEN LET sels == defs[i].selectionSet.selections
                      IN  SumOfSeq([j \in 1..Len(sels) |-> analyzeSelectionComplexity(sels[j], 1)])
                 ELSE 0])

DepthError(depth) == [error |-> "Query depth exceeds maximum allowed depth",
                      measured |-> depth, maximum |-> MAX_QUERY_DEPTH]
ComplexityError(complexity) == [error |-> "Query complexity exceeds maximum allowed complexity",
                                measured |-> complexity, maximum |-> MAX_QUERY_COMPLEXITY]
NoDefinitionError == [error |-> "Query must contain at least one definition",
                      measured |-> 0, maximum |-> 0]
AnalysisFailedError == [error |-> "Failed to analyze query structure",
                        measured |-> 0, maximum |-> 0]

\* a mutant whose verdict counts the depth and complexity errors only
validateQuery_limitsOnly(query) ==
    LET errors ==
            IF AnalysisThrows(query)
            THEN <<AnalysisFailedError>>
            ELSE LET depth == analyzeQueryDepth(query)
                     complexity == analyzeQueryComplexity(query)
                 IN  (IF depth > MAX_QUERY_DEPTH THEN <<DepthError(depth)>> ELSE <<>>)
                     \o (IF complexity > MAX_QUERY_COMPLEXITY
                         THEN <<ComplexityError(complexity)>> ELSE <<>>)
                     \o (IF ~query.definitionsPresent \/ Len(query.definitions) = 0
                         THEN <<NoDefinitionError>> ELSE <<>>)
    IN  [valid |-> \A i \in 1..Len(errors) : errors[i].maximum = 0, errors |-> errors]

\* a mutant that tolerates one level more than MAX_QUERY_DEPTH
validateQuery_oneLevelMore(query) ==
    LET errors ==
            IF AnalysisThrows(query)
            THEN <<AnalysisFailedError>>
            ELSE LET depth == analyzeQueryDepth(query)
                     complexity == analyzeQueryComplexity(query)
                 IN  (IF depth > MAX_QUERY_DEPTH + 1 THEN <<DepthError(depth)>> ELSE <<>>)
                     \o (IF complexity > MAX_QUERY_COMPLEXITY
                         THEN <<ComplexityError(complexity)>> ELSE <<>>)
                     \o (IF ~query.definitionsPresent \/ Len(query.definitions) = 0
                         THEN <<NoDefinitionError>> ELSE <<>>)
    IN  [valid |-> Len(errors) = 0, errors |-> errors]

\* a mutant whose catch block pushes nothing
validateQuery_emptyCatch(query) ==
    LET errors ==
            IF AnalysisThrows(query)
            THEN <<>>
            ELSE LET depth == analyzeQueryDepth(query)
                     complexity == analyzeQueryComplexity(query)
                 IN  (IF depth > MAX_QUERY_DEPTH THEN <<DepthError(depth)>> ELSE <<>>)
                     \o (IF complexity > MAX_QUERY_COMPLEXITY
                         THEN <<ComplexityError(complexity)>> ELSE <<>>)
                     \o (IF ~query.definitionsPresent \/ Len(query.definitions) = 0
                         THEN <<NoDefinitionError>> ELSE <<>>)
    IN  [valid |-> Len(errors) = 0, errors |-> errors]

\* validateQuery: the depth analysis runs first, so a malformed document
\* raises there, before any error was pushed
validateQuery(query) ==
    LET errors ==
            IF AnalysisThrows(query)
            THEN <<AnalysisFailedError>>
            ELSE LET depth == analyzeQueryDepth(query)
                     complexity == analyzeQueryComplexity(query)
                 IN  (IF depth > MAX_QUERY_DEPTH THEN <<DepthError(depth)>> ELSE <<>>)
                     \o (IF complexity > MAX_QUERY_COMPLEXITY
                         THEN <<ComplexityError(complexity)>> ELSE <<>>)
                     \o (IF ~query.definitionsPresent \/ Len(query.definitions) = 0
                         THEN <<NoDefinitionError>> ELSE <<>>)
    IN  [valid |-> Len(errors) = 0, errors |-> errors]


\* ------------------------------------------------------------------------
\* Strings are sequences of one-character strings
\* ------------------------------------------------------------------------
UpperCase == <<"A", "B", "C", "D", "E", "F", "G", "H", "I", "J", "K", "L", "M",
               "N", "O", "P", "Q", "R", "S", "T", "U", "V", "W", "X", "Y", "Z">>
LowerCase == <<"a", "b", "c", "d", "e", "f", "g", "h", "i", "j", "k", "l", "m",
               "n", "o", "p", "q", "r", "s", "t", "u", "v", "w", "x", "y", "z">>
Digits == {"0", "1", "2", "3", "4", "5", "6", "7", "8", "9"}
Whitespace == {" "}

Range(seq) == {seq[i] : i \in DOMAIN seq}

UpperCaseChars == Range(UpperCase)
Letters == Range(UpperCase) \cup Range(LowerCase)
AlphaNumeric == Letters \cup Digits
WordChars == AlphaNumeric \cup {"_"}
LowerCaseOf == [c \in UpperCaseChars |->
                   LowerCase[CHOOSE i \in DOMAIN UpperCase : UpperCase[i] = c]]

toLowerCaseChar(c) == IF c \in UpperCaseChars THEN LowerCaseOf[c] ELSE c

toLowerCase(str) == [i \in DOMAIN str |-> toLowerCaseChar(str[i])]

\* \w of a regular expression
IsWordChar(c) == c \in WordChars

\* the pattern occurs in str at position i
MatchesAt(str, i, pattern) ==
    /\ i >= 1
    /\ i + Len(pattern) - 1 <= Len(str)
    /\ \A k \in 1..Len(pattern) : str[i + k - 1] = pattern[k]

\* the lower-case pattern occurs in str at position i, letter case ignored
MatchesAtIgnoreCase(str, i, pattern) ==
    /\ i >= 1
    /\ i + Len(pattern) - 1 <= Len(str)
    /\ \A k \in 1..Len(pattern) : toLowerCaseChar(str[i + k - 1]) = pattern[k]

includes(str, pattern) ==
    \E i \in 1..(Len(str) + 1) : MatchesAt(str, i, pattern)

RECURSIVE trimStart(_)
trimStart(str) ==
    IF str # <<>> /\ Head(str) \in Whitespace THEN trimStart(Tail(str)) ELSE str

RECURSIVE trimEnd(_)
trimEnd(str) ==
    IF str # <<>> /\ str[Len(str)] \in Whitespace
    THEN trimEnd(SubSeq(str, 1, Len(str) - 1))
    ELSE str

trim(str) == trimEnd(trimStart(str))

\* String.prototype.replace with a global regular expression scans from the
\* left: the first of the positions where the pattern matches, 0 when there is none
NextMatch(starts) ==
    IF starts = {} THEN 0 ELSE CHOOSE j \in starts : \A k \in starts : j <= k

\* ------------------------------------------------------------------------
\* sanitizeVariables
\* ------------------------------------------------------------------------
ScriptOpen == <<"<", "s", "c", "r", "i", "p", "t">>
ScriptClose == <<"<", "/", "s", "c", "r", "i", "p", "t", ">">>
JavascriptPrefix == <<"j", "a", "v", "a", "s", "c", "r", "i", "p", "t", ":">>

\* /<script\b[^<]*(?:(?!<\/script>)<[^<]*)*<\/script>/gi at position i:
\* "<script", a word boundary, then everything up to the first "</script>".
\* The length of the match, 0 when there is none.
ScriptMatchLen(str, i) ==
    LET after == i + Len(ScriptOpen)
        ends == {j \in after..Len(str) : MatchesAtIgnoreCase(str, j, ScriptClose)}
    IN  IF /\ MatchesAtIgnoreCase(str, i, ScriptOpen)
           /\ after <= Len(str)
           /\ ~IsWordChar(str[after])
           /\ ends # {}
        THEN (CHOOSE j \in ends : \A k \in ends : j <= k) + Len(ScriptClose) - i
        ELSE 0

RECURSIVE removeScriptBlocks(_, _)
removeScriptBlocks(str, i) ==
    LET replaceAt(j) ==
            IF j = 0
            THEN SubSeq(str, i, Len(str))
            ELSE SubSeq(str, i, j - 1) \o removeScriptBlocks(str, j + ScriptMatchLen(str, j))
    IN  replaceAt(NextMatch({p \in i..Len(str) : ScriptMatchLen(str, p) > 0}))

\* /javascript:/gi
JavascriptMatchLen(str, i) ==
    IF MatchesAtIgnoreCase(str, i, JavascriptPrefix) THEN Len(JavascriptPrefix) ELSE 0

RECURSIVE removeJavascriptPrefix(_, _)
removeJavascriptPrefix(str, i) ==
    LET replaceAt(j) ==
            IF j = 0
            THEN SubSeq(str, i, Len(str))
            ELSE SubSeq(str, i, j - 1) \o removeJavascriptPrefix(str, j + JavascriptMatchLen(str, j))
    IN  replaceAt(NextMatch({p \in i..Len(str) : JavascriptMatchLen(str, p) > 0}))

RECURSIVE RunLength(_, _, _)
RunLength(str, i, class) ==
    IF i <= Len(str) /\ str[i] \in class THEN 1 + RunLength(str, i + 1, class) ELSE 0

\* /on\w+\s*=/gi at position i: the length of the match, 0 when there is none
EventHandlerMatchLen(str, i) ==
    LET words == RunLength(str, i + 2, WordChars)
        spaces == RunLength(str, i + 2 + words, Whitespace)
        eq == i + 2 + words + spaces
    IN  IF /\ MatchesAtIgnoreCase(str, i, <<"o", "n">>)
           /\ words >= 1
           /\ eq <= Len(str)
           /\ str[eq] = "="
        THEN eq - i + 1
        ELSE 0

RECURSIVE removeEventHandlers(_, _)
removeEventHandlers(str, i) ==
    LET replaceAt(j) ==
            IF j = 0
            THEN SubSeq(str, i, Len(str))
            ELSE SubSeq(str, i, j - 1) \o removeEventHandlers(str, j + EventHandlerMatchLen(str, j))
    IN  replaceAt(NextMatch({p \in i..Len(str) : EventHandlerMatchLen(str, p) > 0}))

sanitizeString(str) ==
    trim(removeEventHandlers(removeJavascriptPrefix(removeScriptBlocks(str, 1), 1), 1))

\* JSON-like values, tagged by typeof
Null == [type |-> "null"]
Undefined == [type |-> "undefined"]
String(chars) == [type |-> "string", chars |-> chars]
Number(n) == [type |-> "number", kind |-> "finite", value |-> n]
NaN == [type |-> "number", kind |-> "NaN", value |-> 0]
Infinity == [type |-> "number", kind |-> "Infinity", value |-> 0]
NegativeInfinity == [type |-> "number", kind |-> "-Infinity", value |-> 0]
Boolean(b) == [type |-> "boolean", value |-> b]
Array(items) == [type |-> "array", items |-> items]
\* an object is the sequence of its [key, value] entries, in Object.entries order
Object(entries) == [type |-> "object", entries |-> entries]
Entry(key, value) == [key |-> key, value |-> value]


\* a mutant that also sanitizes the mappings it finds inside an array
RECURSIVE sanitizeVariables_deepArrays(_)
sanitizeVariables_deepArrays(variables) ==
    LET sanitizeValue(value) ==
            IF value.type \in {"null", "undefined"} THEN value
            ELSE IF value.type = "string" THEN String(sanitizeString(value.chars))
            ELSE IF value.type = "number"
                 THEN (IF value.kind = "finite" THEN value ELSE Number(0))
            ELSE IF value.type = "boolean" THEN value
            ELSE IF value.type = "array"
                 THEN Array([i \in DOMAIN value.items |->
                         IF value.items[i].type = "string"
                         THEN String(sanitizeString(value.items[i].chars))
                         ELSE IF value.items[i].type = "object"
                         THEN sanitizeVariables_deepArrays(value.items[i])
                         ELSE value.items[i]])
            ELSE IF value.type = "object" THEN sanitizeVariables_deepArrays(value)
            ELSE value
    IN  Object([i \in DOMAIN variables.entries |->
            Entry(variables.entries[i].key, sanitizeValue(variables.entries[i].value))])

RECURSIVE sanitizeVariables(_)
sanitizeVariables(variables) ==
    LET sanitizeValue(value) ==
            IF value.type \in {"null", "undefined"} THEN value
            ELSE IF value.type = "string" THEN String(sanitizeString(value.chars))
            ELSE IF value.type = "number"
                 THEN (IF value.kind = "finite" THEN value ELSE Number(0))
            ELSE IF value.type = "boolean" THEN value
            ELSE IF value.type = "array"
                 THEN Array([i \in DOMAIN value.items |->
                         IF value.items[i].type = "string"
                         THEN String(sanitizeString(value.items[i].chars))
                         ELSE value.items[i]])
            ELSE IF value.type = "object" THEN sanitizeVariables(value)
            ELSE value
    IN  Object([i \in DOMAIN variables.entries |->
            Entry(variables.entries[i].key, sanitizeValue(variables.entries[i].value))])


\* ------------------------------------------------------------------------
\* DataMasker
\* ------------------------------------------------------------------------
Environments == {"development", "production", "test", "unset"}

MaskingPattern == <<"*", "*", "*">>

DEFAULT_MASKING_CONFIG(nodeEnv) ==
    [enableMasking |-> nodeEnv = "production",
     maskSensitiveFields |-> TRUE,
     logSafeMode |-> TRUE,
     maskingPattern |-> MaskingPattern,
     sensitiveFields |-> << <<"i", "d">>, <<"c", "r", "e", "a", "t", "e", "d">>, <<"d", "i", "m", "e", "n", "s", "i", "o", "n">>, <<"e", "p", "i", "s", "o", "d", "e", ".", "c", "r", "e", "a", "t", "e", "d">>,
                            <<"o", "r", "i", "g", "i", "n", ".", "i", "d">>, <<"l", "o", "c", "a", "t", "i", "o", "n", ".", "i", "d">> >>,
     partialMaskingFields |-> << <<"n", "a", "m", "e">>, <<"i", "m", "a", "g", "e">>, <<"a", "i", "r", "_", "d", "a", "t", "e">> >>]

\* a mutant that matches a fragment inside the field name only
isSensitiveField_oneWay(config, fieldName) ==
    \E i \in DOMAIN config.sensitiveFields :
        includes(toLowerCase(fieldName), toLowerCase(config.sensitiveFields[i]))

isSensitiveField(config, fieldName) ==
    \E i \in DOMAIN config.sensitiveFields :
        \/ includes(toLowerCase(fieldName), toLowerCase(config.sensitiveFields[i]))
        \/ includes(toLowerCase(config.sensitiveFields[i]), toLowerCase(fieldName))

\* a mutant that also matches a field name inside a fragment
isPartialMaskingField_eitherWay(config, fieldName) ==
    \E i \in DOMAIN config.partialMaskingFields :
        \/ includes(toLowerCase(fieldName), toLowerCase(config.partialMaskingFields[i]))
        \/ includes(toLowerCase(config.partialMaskingFields[i]), toLowerCase(fieldName))

isPartialMaskingField(config, fieldName) ==
    \E i \in DOMAIN config.partialMaskingFields :
        includes(toLowerCase(fieldName), toLowerCase(config.partialMaskingFields[i]))

\* a mutant that masks only strings shorter than 4 characters as a whole
partialMask_shortRevealed(config, value) ==
    IF Len(value) < 4
    THEN config.maskingPattern
    ELSE LET visibleChars == Max(1, (Len(value) * 3) \div 10)
         IN  SubSeq(value, 1, visibleChars) \o config.maskingPattern
             \o SubSeq(value, Len(value) - visibleChars + 1, Len(value))

\* a mutant that keeps two fifths of the characters at each end
partialMask_twoFifths(config, value) ==
    IF Len(value) <= 4
    THEN config.maskingPattern
    ELSE LET visibleChars == Max(1, (Len(value) * 4) \div 10)
         IN  SubSeq(value, 1, visibleChars) \o config.maskingPattern
             \o SubSeq(value, Len(value) - visibleChars + 1, Len(value))

partialMask(config, value) ==
    IF Len(value) <= 4
    THEN config.maskingPattern
    ELSE LET visibleChars == Max(1, (Len(value) * 3) \div 10)
         IN  SubSeq(value, 1, visibleChars) \o config.maskingPattern
             \o SubSeq(value, Len(value) - visibleChars + 1, Len(value))

\* the entries outside the dropped positions, order kept
RECURSIVE FilterEntries(_, _, _)
FilterEntries(entries, i, dropped) ==
    IF i > Len(entries)
    THEN <<>>
    ELSE (IF i \in dropped THEN <<>> ELSE <<entries[i]>>)
         \o FilterEntries(entries, i + 1, dropped)

RECURSIVE deepMaskObject(_, _, _)
deepMaskObject(config, obj, isAuditLog) ==
    IF obj.type \in {"null", "undefined"} THEN obj
    ELSE IF obj.type \notin {"object", "array"} THEN obj
    ELSE IF obj.type = "array"
         THEN Array([i \in DOMAIN obj.items |-> deepMaskObject(config, obj.items[i], isAuditLog)])
    ELSE LET entries == obj.entries
             deleted == {i \in DOMAIN entries :
                            isAuditLog /\ isSensitiveField(config, entries[i].key)}
             masked == [i \in DOMAIN entries |->
                 LET key == entries[i].key
                     value == entries[i].value
                 IN  IF isSensitiveField(config, key)
                     THEN Entry(key, String(config.maskingPattern))
                     ELSE IF isPartialMaskingField(config, key) /\ value.type = "string"
                          THEN Entry(key, String(partialMask(config, value.chars)))
                          ELSE IF value.type \in {"object", "array"}
                               THEN Entry(key, deepMaskObject(config, value, isAuditLog))
                               ELSE Entry(key, value)]
         IN  Object(FilterEntries(masked, 1, deleted))

DecimalDigit == <<"0", "1", "2", "3", "4", "5", "6", "7", "8", "9">>

\* Object.entries of an array: its indices as keys
ArrayEntries(items) == [i \in DOMAIN items |-> Entry(<<DecimalDigit[i]>>, items[i])]

RECURSIVE maskVariablesEntries(_, _)
maskVariablesEntries(config, entries) ==
    [i \in DOMAIN entries |->
        LET key == entries[i].key
            value == entries[i].value
        IN  IF isSensitiveField(config, key)
            THEN Entry(key, String(config.maskingPattern))
            ELSE IF isPartialMaskingField(config, key) /\ value.type = "string"
                 THEN Entry(key, String(partialMask(config, value.chars)))
                 ELSE IF value.type = "object"
                      THEN Entry(key, Object(maskVariablesEntries(config, value.entries)))
                      ELSE IF value.type = "array"
                           THEN Entry(key, Object(maskVariablesEntries(config,
                                                      ArrayEntries(value.items))))
                           ELSE Entry(key, value)]

maskVariables(config, variables) ==
    IF ~config.logSafeMode
    THEN variables
    ELSE Object(maskVariablesEntries(config, variables.entries))

maskResponseDataWith(config, data) ==
    IF ~config.enableMasking THEN data ELSE deepMaskObject(config, data, FALSE)

\* a mutant that leaves the placeholder in the place of a sensitive field
createAuditLogDataWith_placeholder(config, data) ==
    IF ~config.logSafeMode THEN data ELSE deepMaskObject(config, data, FALSE)

createAuditLogDataWith(config, data) ==
    IF ~config.logSafeMode THEN data ELSE deepMaskObject(config, data, TRUE)

\* the JSON text is modelled by the value that is serialised
maskQueryForLoggingWith(config, query) ==
    IF ~config.logSafeMode
    THEN [safe |-> FALSE, kind |-> query.kind, definitionsPresent |-> query.definitionsPresent,
          definitions |-> query.definitions]
    ELSE [safe |-> TRUE, kind |-> query.kind, definitionsPresent |-> query.definitionsPresent,
          definitions |-> [i \in DOMAIN query.definitions |->
                              [kind |-> query.definitions[i].kind,
                               operation |-> query.definitions[i].operation]]]

\* --- maskErrorMessage -----------------------------------------------------
MaskedUrl == <<"[", "M", "A", "S", "K", "E", "D", "_", "U", "R", "L", "]">>
MaskedToken == <<"[", "M", "A", "S", "K", "E", "D", "_", "T", "O", "K", "E", "N", "]">>
MaskedEmail == <<"[", "M", "A", "S", "K", "E", "D", "_", "E", "M", "A", "I", "L", "]">>
UnknownError == <<"U", "n", "k", "n", "o", "w", "n", " ", "e", "r", "r", "o", "r">>
GenericProcessingError == <<"A", "n", " ", "e", "r", "r", "o", "r", " ", "o", "c", "c", "u", "r", "r", "e", "d", " ", "w", "h", "i", "l", "e", " ", "p", "r", "o", "c", "e", "s", "s", "i", "n", "g", " ", "y", "o", "u", "r", " ", "r", "e", "q", "u", "e", "s", "t", ".">>

IsBoundary(str, i) ==
    \* \b between position i-1 and position i
    LET before == i > 1 /\ i - 1 <= Len(str) /\ IsWordChar(str[i - 1])
        after == i >= 1 /\ i <= Len(str) /\ IsWordChar(str[i])
    IN  before # after

\* /\b\d{1,6}\b/g
IdMatchLen(str, i) ==
    LET n == RunLength(str, i, Digits)
        fits == {k \in 1..n : k <= 6 /\ IsBoundary(str, i + k)}
    IN  IF str[i] \in Digits /\ IsBoundary(str, i) /\ fits # {}
        THEN CHOOSE k \in fits : \A m \in fits : m <= k
        ELSE 0

RECURSIVE maskIds(_, _, _)
maskIds(str, i, pattern) ==
    LET replaceAt(j) ==
            IF j = 0
            THEN SubSeq(str, i, Len(str))
            ELSE SubSeq(str, i, j - 1) \o pattern \o maskIds(str, j + IdMatchLen(str, j), pattern)
    IN  replaceAt(NextMatch({p \in i..Len(str) : IdMatchLen(str, p) > 0}))

RECURSIVE NonSpaceRun(_, _)
NonSpaceRun(str, i) ==
    IF i <= Len(str) /\ str[i] \notin Whitespace THEN 1 + NonSpaceRun(str, i + 1) ELSE 0

\* /https?:\/\/[^\s]+/g
UrlMatchLen(str, i) ==
    LET scheme == IF MatchesAt(str, i, <<"h", "t", "t", "p", "s", ":", "/", "/">>) THEN 8
                  ELSE IF MatchesAt(str, i, <<"h", "t", "t", "p", ":", "/", "/">>) THEN 7 ELSE 0
        rest == NonSpaceRun(str, i + scheme)
    IN  IF scheme > 0 /\ rest >= 1 THEN scheme + rest ELSE 0

RECURSIVE maskUrls(_, _)
maskUrls(str, i) ==
    LET replaceAt(j) ==
            IF j = 0
            THEN SubSeq(str, i, Len(str))
            ELSE SubSeq(str, i, j - 1) \o MaskedUrl \o maskUrls(str, j + UrlMatchLen(str, j))
    IN  replaceAt(NextMatch({p \in i..Len(str) : UrlMatchLen(str, p) > 0}))

\* /[a-zA-Z0-9]{20,}/g at position i
TokenMatchLen(str, i) ==
    LET n == RunLength(str, i, AlphaNumeric)
    IN  IF n >= 20 THEN n ELSE 0

RECURSIVE maskTokens(_, _)
maskTokens(str, i) ==
    LET replaceAt(j) ==
            IF j = 0
            THEN SubSeq(str, i, Len(str))
            ELSE SubSeq(str, i, j - 1) \o MaskedToken \o maskTokens(str, j + TokenMatchLen(str, j))
    IN  replaceAt(NextMatch({p \in i..Len(str) : TokenMatchLen(str, p) > 0}))

EmailLocalChars == AlphaNumeric \cup {".", "_", "%", "+", "-"}
EmailDomainChars == AlphaNumeric \cup {".", "-"}
EmailTldChars == Letters \cup {"|"}

\* /\b[A-Za-z0-9._%+-]+@[A-Za-z0-9.-]+\.[A-Z|a-z]{2,}\b/g
EmailMatchLen(str, i) ==
    LET local == RunLength(str, i, EmailLocalChars)
        at == i + local
        domain == RunLength(str, at + 1, EmailDomainChars)
        \* the last dot of the domain run that a top-level part can follow
        dots == {p \in (at + 2)..(at + domain) :
                    /\ str[p] = "."
                    /\ \E e \in (p + 2)..(p + RunLength(str, p + 1, EmailTldChars)) :
                           IsBoundary(str, e + 1)}
    IN  IF /\ str[i] \in EmailLocalChars
           /\ IsBoundary(str, i)
           /\ local >= 1
           /\ at <= Len(str)
           /\ str[at] = "@"
           /\ dots # {}
        THEN LET p == CHOOSE d \in dots : \A o \in dots : o <= d
                 ends == {e \in (p + 2)..(p + RunLength(str, p + 1, EmailTldChars)) :
                             IsBoundary(str, e + 1)}
             IN  (CHOOSE e \in ends : \A o \in ends : o <= e) - i + 1
        ELSE 0

RECURSIVE maskEmails(_, _)
maskEmails(str, i) ==
    LET replaceAt(j) ==
            IF j = 0
            THEN SubSeq(str, i, Len(str))
            ELSE SubSeq(str, i, j - 1) \o MaskedEmail \o maskEmails(str, j + EmailMatchLen(str, j))
    IN  replaceAt(NextMatch({p \in i..Len(str) : EmailMatchLen(str, p) > 0}))

FieldSeparators == {":", " ", "\"", "'"}
FieldValueStops == {" ", "\"", "'", ",", "}"}

\* the field name as a case-insensitive regular expression: "." matches any character
FieldNameMatchesAt(str, i, field) ==
    /\ i + Len(field) - 1 <= Len(str)
    /\ \A k \in 1..Len(field) :
           \/ field[k] = "."
           \/ toLowerCaseChar(str[i + k - 1]) = toLowerCaseChar(field[k])

RECURSIVE ValueRun(_, _)
ValueRun(str, i) ==
    IF i <= Len(str) /\ str[i] \notin FieldValueStops THEN 1 + ValueRun(str, i + 1) ELSE 0

\* new RegExp(`${field}[:\\s"']*([^\\s"',}]+)`, 'gi') at position i
FieldMatchLen(str, i, field) ==
    LET from == i + Len(field)
        separators == RunLength(str, from, FieldSeparators)
        \* the separator run is greedy and gives characters back until a value follows
        taken == {k \in 0..separators : ValueRun(str, from + k) >= 1}
    IN  IF FieldNameMatchesAt(str, i, field) /\ taken # {}
        THEN LET k == CHOOSE t \in taken : \A o \in taken : o <= t
             IN  Len(field) + k + ValueRun(str, from + k)
        ELSE 0

RECURSIVE maskField(_, _, _, _)
maskField(str, i, field, pattern) ==
    LET replaceAt(j) ==
            IF j = 0
            THEN SubSeq(str, i, Len(str))
            ELSE SubSeq(str, i, j - 1) \o field \o <<":", " ">> \o pattern
                     \o maskField(str, j + FieldMatchLen(str, j, field), field, pattern)
    IN  replaceAt(NextMatch({p \in i..Len(str) : FieldMatchLen(str, p, field) > 0}))

RECURSIVE maskFields(_, _, _)
maskFields(str, fields, pattern) ==
    IF fields = <<>>
    THEN str
    ELSE maskFields(maskField(str, 1, Head(fields), pattern), Tail(fields), pattern)

\* error is an object with a message (the empty message stands for a missing one)
maskErrorMessage(config, error) ==
    IF ~config.enableMasking
    THEN (IF error.message # <<>> THEN error.message ELSE UnknownError)
    ELSE LET orGeneric(maskedMessage) ==
                 IF maskedMessage # <<>> THEN maskedMessage ELSE GenericProcessingError
         IN  orGeneric(maskFields(
                 maskEmails(maskTokens(maskUrls(
                     maskIds(error.message, 1, config.maskingPattern), 1), 1), 1),
                 config.sensitiveFields, config.maskingPattern))

GenericMessages ==
    << [pattern |-> <<"N", "e", "t", "w", "o", "r", "k", " ", "e", "r", "r", "o", "r">>,
        message |-> <<"U", "n", "a", "b", "l", "e", " ", "t", "o", " ", "c", "o", "n", "n", "e", "c", "t", " ", "t", "o", " ", "t", "h", "e", " ", "s", "e", "r", "v", "i", "c", "e", ".", " ", "P", "l", "e", "a", "s", "e", " ", "t", "r", "y", " ", "a", "g", "a", "i", "n", " ", "l", "a", "t", "e", "r", ".">>],
       [pattern |-> <<"G", "r", "a", "p", "h", "Q", "L", " ", "e", "r", "r", "o", "r">>,
        message |-> <<"T", "h", "e", "r", "e", " ", "w", "a", "s", " ", "a", "n", " ", "i", "s", "s", "u", "e", " ", "p", "r", "o", "c", "e", "s", "s", "i", "n", "g", " ", "y", "o", "u", "r", " ", "r", "e", "q", "u", "e", "s", "t", ".">>],
       [pattern |-> <<"T", "i", "m", "e", "o", "u", "t">>,
        message |-> <<"R", "e", "q", "u", "e", "s", "t", " ", "t", "i", "m", "e", "d", " ", "o", "u", "t", ".", " ", "P", "l", "e", "a", "s", "e", " ", "t", "r", "y", " ", "a", "g", "a", "i", "n", ".">>],
       [pattern |-> <<"R", "a", "t", "e", " ", "l", "i", "m", "i", "t">>,
        message |-> <<"T", "o", "o", " ", "m", "a", "n", "y", " ", "r", "e", "q", "u", "e", "s", "t", "s", ".", " ", "P", "l", "e", "a", "s", "e", " ", "w", "a", "i", "t", " ", "b", "e", "f", "o", "r", "e", " ", "t", "r", "y", "i", "n", "g", " ", "a", "g", "a", "i", "n", ".">>] >>


sanitizeErrorMessage(nodeEnv, error) ==
    LET \* the patterns of genericMessages that the message includes
        select(maskedMessage, known) ==
            IF nodeEnv = "development"
            THEN maskedMessage
            ELSE IF known # {}
                 THEN GenericMessages[CHOOSE i \in known : \A o \in known : i <= o].message
                 ELSE maskedMessage
    IN  select(maskErrorMessage(DEFAULT_MASKING_CONFIG(nodeEnv), error),
               {i \in DOMAIN GenericMessages :
                   includes(toLowerCase(error.message),
                            toLowerCase(GenericMessages[i].pattern))})


\* ------------------------------------------------------------------------
\* secure-query-utils: audit logging, error handling, isQuerySafe
\* ------------------------------------------------------------------------
\* An error object: `ref` names the object (its identity), networkError is
\* absent (<<>>) or one error, graphQLErrors is a list of errors.
ErrorObject(ref, message) ==
    [ref |-> ref, message |-> message, networkError |-> <<>>, graphQLErrors |-> <<>>]
ApolloError(message, networkError, graphQLErrors) ==
    [ref |-> "error", message |-> message,
     networkError |-> networkError, graphQLErrors |-> graphQLErrors]

NoOutput == [console |-> <<>>, sanitized |-> <<>>]

logSecureGraphQLOperation_devOnly(nodeEnv, t, operation, query, variables, result, error) ==
    IF nodeEnv # "development"
    THEN NoOutput
    ELSE [console |-> <<[label |-> "GraphQL Operation Log:", operation |-> operation]>>,
          sanitized |-> <<>>]

\* what one call writes to console.log, and the errors it hands to sanitizeErrorMessage
logSecureGraphQLOperation(nodeEnv, t, operation, query, variables, result, error) ==
    IF nodeEnv = "test"
    THEN NoOutput
    ELSE LET globalDataMasker == DEFAULT_MASKING_CONFIG(nodeEnv)
             logData(sanitizedError) ==
                 [label |-> "GraphQL Operation Log:",
                  operation |-> operation,
                  timestamp |-> t,
                  query |-> maskQueryForLoggingWith(globalDataMasker, query),
                  variables |-> IF variables.type # "undefined"
                                THEN maskVariables(globalDataMasker, variables)
                                ELSE Undefined,
                  result |-> IF result.type \notin {"undefined", "null"}
                             THEN createAuditLogDataWith(globalDataMasker, result)
                             ELSE Undefined,
                  error |-> sanitizedError,
                  environment |-> nodeEnv]
         IN  [console |->
                  IF nodeEnv = "development"
                  THEN <<logData(IF error # <<>>
                                 THEN <<sanitizeErrorMessage(nodeEnv, error[1])>>
                                 ELSE <<>>)>>
                  ELSE <<[label |-> "GraphQL Operation:",
                          operation |-> operation,
                          timestamp |-> t,
                          hasError |-> error # <<>>]>>,
              sanitized |-> IF error # <<>> THEN <<error[1].ref>> ELSE <<>>]

handleGraphQLError_graphQLFirst(nodeEnv, t, error, enableLogging) ==
    LET selected == IF Len(error.graphQLErrors) > 0 THEN error.graphQLErrors[1]
                    ELSE IF error.networkError # <<>> THEN error.networkError[1]
                    ELSE error
        handled(log) ==
            [message |-> sanitizeErrorMessage(nodeEnv, selected),
             sanitized |-> <<selected.ref>> \o log.sanitized,
             console |-> log.console]
    IN  handled(IF enableLogging
                THEN logSecureGraphQLOperation(nodeEnv, t, "ERROR_HANDLING", Document(<<>>),
                                               Undefined, Undefined, <<error>>)
                ELSE NoOutput)

handleGraphQLError(nodeEnv, t, error, enableLogging) ==
    LET selected == IF error.networkError # <<>> THEN error.networkError[1]
                    ELSE IF Len(error.graphQLErrors) > 0 THEN error.graphQLErrors[1]
                    ELSE error
        handled(log) ==
            [message |-> sanitizeErrorMessage(nodeEnv, selected),
             sanitized |-> <<selected.ref>> \o log.sanitized,
             console |-> log.console]
    IN  handled(IF enableLogging
                THEN logSecureGraphQLOperation(nodeEnv, t, "ERROR_HANDLING", Document(<<>>),
                                               Undefined, Undefined, <<error>>)
                ELSE NoOutput)

\* Number.prototype.toString of a natural number
RECURSIVE ToChars(_)
ToChars(n) ==
    IF n < 10 THEN <<DecimalDigit[n + 1]>> ELSE ToChars(n \div 10) \o <<DecimalDigit[(n % 10) + 1]>>

\* the string that validateQuery pushed for an error
ErrorText(e) ==
    IF e = NoDefinitionError
    THEN <<"Q", "u", "e", "r", "y", " ", "m", "u", "s", "t", " ", "c", "o", "n", "t", "a", "i", "n", " ", "a", "t", " ", "l", "e", "a", "s", "t", " ", "o", "n", "e", " ", "d", "e", "f", "i", "n", "i", "t", "i", "o", "n">>
    ELSE IF e = AnalysisFailedError
    THEN <<"F", "a", "i", "l", "e", "d", " ", "t", "o", " ", "a", "n", "a", "l", "y", "z", "e", " ", "q", "u", "e", "r", "y", " ", "s", "t", "r", "u", "c", "t", "u", "r", "e">>
    ELSE IF e.error = DepthError(0).error
    THEN <<"Q", "u", "e", "r", "y", " ", "d", "e", "p", "t", "h", " ">> \o ToChars(e.measured)
         \o <<" ", "e", "x", "c", "e", "e", "d", "s", " ", "m", "a", "x", "i", "m", "u", "m", " ", "a", "l", "l", "o", "w", "e", "d", " ", "d", "e", "p", "t", "h", " ", "o", "f", " ">> \o ToChars(e.maximum)
    ELSE <<"Q", "u", "e", "r", "y", " ", "c", "o", "m", "p", "l", "e", "x", "i", "t", "y", " ">> \o ToChars(e.measured)
         \o <<" ", "e", "x", "c", "e", "e", "d", "s", " ", "m", "a", "x", "i", "m", "u", "m", " ", "a", "l", "l", "o", "w", "e", "d", " ", "c", "o", "m", "p", "l", "e", "x", "i", "t", "y", " ", "o", "f", " ">> \o ToChars(e.maximum)

\* Array.prototype.join
RECURSIVE join(_, _)
join(strs, separator) ==
    IF strs = <<>> THEN <<>>
    ELSE IF Len(strs) = 1 THEN strs[1]
    ELSE strs[1] \o separator \o join(Tail(strs), separator)

\* isQuerySafe(query, enableLogging) against a rate-limit map: the verdict, whether
\* the rate limiter was consulted, and the log lines
isQuerySafe(map, limit, nodeEnv, t, query, enableLogging) ==
    LET validation == validateQuery(query)
        rateLimitCheck == checkRateLimit(map, "default", limit, t)
        failed(operation, message) ==
            IF enableLogging
            THEN logSecureGraphQLOperation(nodeEnv, t, operation, query, Undefined, Undefined,
                                           <<ErrorObject("literal", message)>>).console
            ELSE <<>>
    IN  IF ~validation.valid
        THEN [safe |-> FALSE, rateChecked |-> FALSE,
              console |-> failed("QUERY_VALIDATION_FAILED",
                             <<"V", "a", "l", "i", "d", "a", "t", "i", "o", "n", " ", "f", "a", "i", "l", "e", "d", ":", " ">>
                             \o join([i \in DOMAIN validation.errors |-> ErrorText(validation.errors[i])],
                                     <<",", " ">>))]
        ELSE IF ~rateLimitCheck.allowed
             THEN [safe |-> FALSE, rateChecked |-> TRUE,
                   console |-> failed("RATE_LIMIT_EXCEEDED", <<"R", "a", "t", "e", " ", "l", "i", "m", "i", "t", " ", "e", "x", "c", "e", "e", "d", "e", "d">>)]
             ELSE [safe |-> TRUE, rateChecked |-> TRUE, console |-> <<>>]

maskGraphQLResponse(nodeEnv, data, enableMasking) ==
    IF ~enableMasking THEN data ELSE maskResponseDataWith(DEFAULT_MASKING_CONFIG(nodeEnv), data)

\* ------------------------------------------------------------------------
\* Rate limiter claims
\* ------------------------------------------------------------------------
CallsOf(id) == SelectSeq(history, LAMBDA h : h.id = id)

\* C1: for a limit N >= 1 and an identifier without an entry, the calls made
\* within the window opened by its first call are allowed with remaining
\* N-1, N-2, ..., 0 for the first N of them, and the (N+1)th is denied with
\* remaining 0.
C1_FirstNAllowedThenDenied ==
    RATE_LIMIT >= 1 =>
        \A id \in Identifiers :
            LET cs == CallsOf(id)
            IN  \A k \in 1..Len(cs) :
                    (/\ id \notin DOMAIN cs[1].before
                     /\ cs[k].now <= cs[1].now + 60000)
                    => /\ (k <= RATE_LIMIT =>
                              cs[k].allowed /\ cs[k].remaining = RATE_LIMIT - k)
                       /\ (k = RATE_LIMIT + 1 =>
                              ~cs[k].allowed /\ cs[k].remaining = 0)

C1_Witness ==
    /\ RATE_LIMIT >= 1
    /\ \E id \in Identifiers :
            LET cs == CallsOf(id)
            IN  /\ Len(cs) >= RATE_LIMIT + 1
                /\ cs[RATE_LIMIT + 1].now <= cs[1].now + 60000

\* C2: with a limit N >= 1, a call made after the stored resetTime (now >
\* resetTime) opens a fresh window whatever the old count was: allowed,
\* remaining N-1, resetTime now + 60000, stored entry replaced by count 1;
\* a call at now = resetTime still counts against the old window.
C2_ExpiredWindowStartsFresh ==
    RATE_LIMIT >= 1 =>
        \A k \in 1..Len(history) :
            LET h == history[k]
            IN  h.id \in DOMAIN h.before =>
                    LET old == h.before[h.id]
                    IN  /\ h.now > old.resetTime =>
                              /\ h.allowed
                              /\ h.remaining = RATE_LIMIT - 1
                              /\ h.resetTime = h.now + 60000
                              /\ h.after[h.id] = [count |-> 1, resetTime |-> h.now + 60000]
                        /\ h.now = old.resetTime =>
                              /\ h.resetTime = old.resetTime
                              /\ h.allowed = (old.count < RATE_LIMIT)
                              /\ h.after[h.id].resetTime = old.resetTime
                              /\ h.after[h.id].count =
                                    IF old.count < RATE_LIMIT THEN old.count + 1 ELSE old.count
                              /\ (h.allowed => h.remaining = RATE_LIMIT - old.count - 1)

C2_Witness ==
    /\ RATE_LIMIT >= 1
    /\ \E k \in 1..Len(history) :
            LET h == history[k]
            IN  /\ h.id \in DOMAIN h.before
                /\ h.now > h.before[h.id].resetTime
                /\ h.before[h.id].count = RATE_LIMIT
    /\ \E k \in 1..Len(history) :
            LET h == history[k]
            IN  /\ h.id \in DOMAIN h.before
                /\ h.now = h.before[h.id].resetTime

\* C3: a call for identifier a leaves the entry of every other identifier
\* as it was (present or absent, same count and resetTime), and returns
\* what a limiter that only ever served a would return.
C3_IdentifierIsolation ==
    \A k \in 1..Len(history) :
        LET h == history[k]
        IN  /\ \A b \in Identifiers \ {h.id} :
                  /\ (b \in DOMAIN h.after) = (b \in DOMAIN h.before)
                  /\ (b \in DOMAIN h.before => h.after[b] = h.before[b])
            /\ h.allowed = h.alone.allowed
            /\ h.remaining = h.alone.remaining
            /\ h.resetTime = h.alone.resetTime

C3_Witness ==
    \E i, j, k \in 1..Len(history) :
        /\ i < j /\ j < k
        /\ history[i].id = history[k].id
        /\ history[j].id # history[i].id
        /\ history[j].allowed

AllowedInHalfOpen(id, lo, hi) ==
    Cardinality({k \in 1..Len(history) :
        /\ history[k].id = id
        /\ history[k].allowed
        /\ lo <= history[k].now
        /\ history[k].now < hi})

AllowedInClosed(id, lo, hi) ==
    Cardinality({k \in 1..Len(history) :
        /\ history[k].id = id
        /\ history[k].allowed
        /\ lo <= history[k].now
        /\ history[k].now <= hi})

AllowedInWindow(id, reset) ==
    Cardinality({k \in 1..Len(history) :
        /\ history[k].id = id
        /\ history[k].allowed
        /\ history[k].resetTime = reset})

\* C4 as claimed (sliding window): in every interval of window length at most
\* N calls of one identifier are allowed.
C4_SlidingWindow ==
    \A id \in Identifiers :
        \A k \in 1..Len(history) :
            AllowedInHalfOpen(id, history[k].now, history[k].now + 60000) <= RATE_LIMIT

\* C4 amended (fixed window): at most N calls of one identifier are allowed
\* per window (the calls that share a resetTime), and an interval of window
\* length, which can straddle two windows, holds at most max(N, 2N-1)
\* allowed calls.
C4_FixedWindow ==
    \A id \in Identifiers :
        \A k \in 1..Len(history) :
            /\ AllowedInWindow(id, history[k].resetTime) <= RATE_LIMIT
            /\ AllowedInClosed(id, history[k].now, history[k].now + 60000)
                   <= Max(RATE_LIMIT, 2 * RATE_LIMIT - 1)

C4_Witness ==
    \E id \in Identifiers :
        \E k \in 1..Len(history) :
            /\ RATE_LIMIT >= 2
            /\ AllowedInWindow(id, history[k].resetTime) = RATE_LIMIT
            /\ AllowedInClosed(id, history[k].now, history[k].now + 60000)
                   = 2 * RATE_LIMIT - 1

\* ------------------------------------------------------------------------
\* Direct calls of the error and audit-log utilities
\* ------------------------------------------------------------------------
NetworkError == ErrorObject("networkError", <<"h", "o", "s", "t", " ", "1", "0", ".", "0", ".", "0", ".", "1", " ", "d", "o", "w", "n">>)
GraphQLError0 == ErrorObject("graphQLErrors[0]", <<"i", "d", ":", " ", "4", "2", " ", "m", "i", "s", "s", "i", "n", "g">>)
GraphQLError1 == ErrorObject("graphQLErrors[1]", <<"s", "e", "c", "o", "n", "d">>)
ApolloErrors ==
    {ApolloError(<<"T", "i", "m", "e", "o", "u", "t", " ", "a", "t", " ", "a", "@", "b", ".", "i", "o">>, n, g) :
        n \in {<<>>, <<NetworkError>>},
        g \in {<<>>, <<GraphQLError0>>, <<GraphQLError0, GraphQLError1>>}}

QueryNames == {"simple", "deep"}
QueryDocument(name) == IF name = "simple" THEN createMockQuery(2) ELSE createMockQuery(15)
MutationDocument(name) ==
    Document(<<OperationDefinition("mutation",
                                   MockSelectionSet(IF name = "simple" THEN 2 ELSE 15))>>)

\* caller-side variables objects, named by reference
VariableObjects == {"clean", "script"}
VariablesOf(name) ==
    IF name = "none" THEN Undefined
    ELSE IF name = "clean"
    THEN Object(<<Entry(<<"i", "d">>, String(<<"1">>))>>)
    ELSE Object(<<Entry(<<"n", "a", "m", "e">>, String(<<"<", "s", "c", "r", "i", "p", "t", ">", "a", "l", "e", "r", "t", "(", "1", ")", "<", "/", "s", "c", "r", "i", "p", "t", ">", "R", "i", "c", "k", " ", "S", "a", "n", "c", "h", "e", "z", " ">>)),
                  Entry(<<"p", "a", "g", "e">>, NaN)>>)

ResponseData ==
    Object(<<Entry(<<"c", "h", "a", "r", "a", "c", "t", "e", "r">>,
                   Object(<<Entry(<<"i", "d">>, String(<<"1">>)),
                            Entry(<<"n", "a", "m", "e">>, String(<<"R", "i", "c", "k", " ", "S", "a", "n", "c", "h", "e", "z">>)),
                            Entry(<<"s", "t", "a", "t", "u", "s">>, String(<<"A", "l", "i", "v", "e">>))>>))>>)

CallHandleGraphQLError(error, enableLogging) ==
    LET handled == handleGraphQLError(NODE_ENV, now, error, enableLogging)
    IN  /\ lastOp' = [hook |-> "handleGraphQLError", step |-> "call",
                      error |-> error, enableLogging |-> enableLogging,
                      message |-> handled.message, sanitized |-> handled.sanitized]
        /\ consoleOut' = handled.console
        /\ UNCHANGED <<callVars, RATE_LIMIT, NODE_ENV, utilVars, now, rateVars, hookVars>>

\* useGraphQLAuditLogger().logOperation(operation, query, variables, result, error)
CallLogSecureGraphQLOperation(operation, query, variables, result, error) ==
    LET logged == logSecureGraphQLOperation(NODE_ENV, now, operation, QueryDocument(query),
                                            variables, result, error)
    IN  /\ lastOp' = [hook |-> "logSecureGraphQLOperation", step |-> "call",
                      operation |-> operation, query |-> query, variables |-> variables,
                      result |-> result, error |-> error, sanitized |-> logged.sanitized]
        /\ consoleOut' = logged.console
        /\ UNCHANGED <<callVars, RATE_LIMIT, NODE_ENV, utilVars, now, rateVars, hookVars>>

InitErrors ==
    /\ InitCommon
    /\ argument = <<>>
    /\ RATE_LIMIT = MaxLimit
    /\ NODE_ENV \in Environments

NextErrors ==
    \/ \E error \in ApolloErrors, enableLogging \in BOOLEAN :
           CallHandleGraphQLError(error, enableLogging)
    \/ \E query \in QueryNames,
          variables \in {Undefined, VariablesOf("script")},
          result \in {Undefined, ResponseData},
          error \in {<<>>, <<GraphQLError0>>} :
           CallLogSecureGraphQLOperation("TEST_OPERATION", query, variables, result, error)

SpecErrors == InitErrors /\ [][NextErrors]_vars

\* ------------------------------------------------------------------------
\* Error handling and audit-log claims
\* ------------------------------------------------------------------------
\* the error that the priority rule of the claim selects
SelectedByPriority(error) ==
    IF error.networkError # <<>> THEN error.networkError[1]
    ELSE IF error.graphQLErrors # <<>> THEN error.graphQLErrors[1]
    ELSE error

\* C9 as claimed: handleGraphQLError returns sanitizeErrorMessage of the
\* networkError, else of the first graphQLError, else of the error itself, and
\* that object is the only one ever passed to sanitizeErrorMessage, with or
\* without audit logging.
C9_OnlySelectedSanitized ==
    lastOp.hook = "handleGraphQLError" =>
        /\ lastOp.message = sanitizeErrorMessage(NODE_ENV, SelectedByPriority(lastOp.error))
        /\ lastOp.sanitized = <<SelectedByPriority(lastOp.error).ref>>

\* C9 amended: the returned string is sanitizeErrorMessage of the object
\* selected by priority; with audit logging enabled outside test mode the log
\* call passes the top-level error to sanitizeErrorMessage as well, and that
\* second call does not change the result.
C9_PriorityResult ==
    lastOp.hook = "handleGraphQLError" =>
        /\ lastOp.message = sanitizeErrorMessage(NODE_ENV, SelectedByPriority(lastOp.error))
        /\ lastOp.sanitized =
               IF lastOp.enableLogging /\ NODE_ENV # "test"
               THEN <<SelectedByPriority(lastOp.error).ref, "error">>
               ELSE <<SelectedByPriority(lastOp.error).ref>>

C9_Witness ==
    /\ lastOp.hook = "handleGraphQLError"
    /\ lastOp.error.networkError # <<>>
    /\ Len(lastOp.error.graphQLErrors) = 2
    /\ lastOp.enableLogging
    /\ NODE_ENV = "production"

FullLogEntry(entry) ==
    /\ DOMAIN entry = {"label", "operation", "timestamp", "query", "variables",
                       "result", "error", "environment"}
    /\ entry.operation = lastOp.operation
    /\ entry.query = maskQueryForLoggingWith(DEFAULT_MASKING_CONFIG(NODE_ENV),
                                             QueryDocument(lastOp.query))
    /\ entry.variables = IF lastOp.variables = Undefined THEN Undefined
                         ELSE maskVariables(DEFAULT_MASKING_CONFIG(NODE_ENV), lastOp.variables)
    /\ entry.result = IF lastOp.result = Undefined THEN Undefined
                      ELSE createAuditLogDataWith(DEFAULT_MASKING_CONFIG(NODE_ENV), lastOp.result)
    /\ entry.error = IF lastOp.error = <<>> THEN <<>>
                     ELSE <<sanitizeErrorMessage(NODE_ENV, lastOp.error[1])>>

MinimalLogEntry(entry) ==
    /\ DOMAIN entry = {"label", "operation", "timestamp", "hasError"}
    /\ entry.operation = lastOp.operation
    /\ entry.timestamp = now
    /\ entry.hasError = (lastOp.error # <<>>)

\* C10 as claimed: nothing in test mode, the minimal entry in production, the
\* full masked entry in every environment that is neither production nor test.
C10_FullOutsideProductionAndTest ==
    lastOp.hook = "logSecureGraphQLOperation" =>
        /\ NODE_ENV = "test" => consoleOut = <<>>
        /\ NODE_ENV = "production" => Len(consoleOut) = 1 /\ MinimalLogEntry(consoleOut[1])
        /\ NODE_ENV \notin {"production", "test"} =>
               Len(consoleOut) = 1 /\ FullLogEntry(consoleOut[1])

\* C10 amended: nothing in test mode; the full masked entry (masked query,
\* masked variables, audit-safe result, sanitized error) only when NODE_ENV is
\* development; in every other environment, production included, only the
\* operation name, the timestamp and the had-error flag.
C10_FullOnlyInDevelopment ==
    lastOp.hook = "logSecureGraphQLOperation" =>
        /\ NODE_ENV = "test" => consoleOut = <<>>
        /\ NODE_ENV = "development" => Len(consoleOut) = 1 /\ FullLogEntry(consoleOut[1])
        /\ NODE_ENV \notin {"development", "test"} =>
               Len(consoleOut) = 1 /\ MinimalLogEntry(consoleOut[1])

C10_Witness ==
    /\ lastOp.hook = "logSecureGraphQLOperation"
    /\ NODE_ENV = "unset"
    /\ lastOp.error # <<>>
    /\ lastOp.variables # Undefined
    /\ lastOp.result # Undefined
    /\ Len(consoleOut) = 1

\* ------------------------------------------------------------------------
\* The secure Apollo hooks and the useRickAndMorty wrapper, over a transport
\* that records every operation it is handed
\* ------------------------------------------------------------------------
\* enableAuditLogging = process.env.NODE_ENV !== 'test'
enableAuditLogging == NODE_ENV # "test"

\* an operation handed to Apollo: the document, the caller's variables object
\* it came from, the variables it actually carries, and whether the caller of
\* the hook supplied an onError callback
Request(hook, query, callerVariables, variables, onError) ==
    [hook |-> hook, query |-> query, callerVariables |-> callerVariables,
     variables |-> variables, onError |-> onError]

DocumentOf(hook, query) ==
    IF hook = "useSecureMutation" THEN MutationDocument(query) ELSE QueryDocument(query)

BlockedMessage(hook) ==
    IF hook = "useSecureQuery"
    THEN <<"Q", "u", "e", "r", "y", " ", "b", "l", "o", "c", "k", "e", "d", " ", "d", "u", "e", " ", "t", "o", " ", "s", "e", "c", "u", "r", "i", "t", "y", " ", "v", "a", "l", "i", "d", "a", "t", "i", "o", "n", " ", "f", "a", "i", "l", "u", "r", "e">>
    ELSE IF hook = "useSecureLazyQuery"
    THEN <<"L", "a", "z", "y", " ", "q", "u", "e", "r", "y", " ", "b", "l", "o", "c", "k", "e", "d", " ", "d", "u", "e", " ", "t", "o", " ", "s", "e", "c", "u", "r", "i", "t", "y", " ", "v", "a", "l", "i", "d", "a", "t", "i", "o", "n", " ", "f", "a", "i", "l", "u", "r", "e">>
    ELSE <<"M", "u", "t", "a", "t", "i", "o", "n", " ", "b", "l", "o", "c", "k", "e", "d", " ", "d", "u", "e", " ", "t", "o", " ", "s", "e", "c", "u", "r", "i", "t", "y", " ", "v", "a", "l", "i", "d", "a", "t", "i", "o", "n", " ", "f", "a", "i", "l", "u", "r", "e">>

\* the audit entry written when a hook blocks an operation
BlockedLog(hook, operation, query, variables) ==
    IF enableAuditLogging
    THEN logSecureGraphQLOperation(NODE_ENV, now, operation, DocumentOf(hook, query),
                                   VariablesOf(variables), Undefined,
                                   <<ErrorObject("literal", BlockedMessage(hook))>>).console
    ELSE <<>>

\* the state change of one isQuerySafe(query, ...) call: checkRateLimit() runs
\* only for a document that passed validateQuery
IsQuerySafeStep(document) ==
    IF validateQuery(document).valid
    THEN RateLimitStep("default")
    ELSE UNCHANGED rateVars

\* useQuery(query, {..., skip}) executes the query unless it is skipped
useQuerySkips(state) == state.skip \/ ~state.isQueryValid

\* a mutant whose effect has no dependency list: it is scheduled by every render
useSecureQuery_Render_everyRender(query, variables, skip, onError) ==
    LET isQueryValid == IF sq.mounted THEN sq.isQueryValid ELSE TRUE
        depsChanged == TRUE
        rendered == [mounted |-> TRUE, query |-> query, variables |-> variables,
                     skip |-> skip, onError |-> onError, isQueryValid |-> isQueryValid,
                     effectPending |-> depsChanged]
        request == Request("useSecureQuery", query, variables, VariablesOf(variables), onError)
        executed == IF useQuerySkips(rendered) THEN <<>> ELSE <<request>>
    IN  /\ opCount < MaxOps
        /\ ~sq.effectPending
        /\ sq' = rendered
        /\ transport' = transport \cup Range(executed)
        /\ opCount' = opCount + 1
        /\ lastOp' = [NoOp EXCEPT !.hook = "useSecureQuery", !.step = "render",
                                  !.query = query, !.variables = variables,
                                  !.skip = useQuerySkips(rendered),
                                  !.valid = validateQuery(QueryDocument(query)).valid,
                                  !.dispatched = executed]
        /\ consoleOut' = <<>>
        /\ UNCHANGED <<callVars, RATE_LIMIT, NODE_ENV, utilVars, now, rateVars>>

\* One render of a component that calls useSecureQuery(query, options).
\* useState(true) gives isQueryValid on mount; the effect is scheduled when
\* query or options.variables changed by reference.
useSecureQuery_Render(query, variables, skip, onError) ==
    LET isQueryValid == IF sq.mounted THEN sq.isQueryValid ELSE TRUE
        depsChanged == ~sq.mounted \/ sq.query # query \/ sq.variables # variables
        rendered == [mounted |-> TRUE, query |-> query, variables |-> variables,
                     skip |-> skip, onError |-> onError, isQueryValid |-> isQueryValid,
                     effectPending |-> depsChanged]
        request == Request("useSecureQuery", query, variables, VariablesOf(variables), onError)
        executed == IF useQuerySkips(rendered) THEN <<>> ELSE <<request>>
    IN  /\ opCount < MaxOps
        /\ ~sq.effectPending
        /\ sq' = rendered
        /\ transport' = transport \cup Range(executed)
        /\ opCount' = opCount + 1
        /\ lastOp' = [NoOp EXCEPT !.hook = "useSecureQuery", !.step = "render",
                                  !.query = query, !.variables = variables,
                                  !.skip = useQuerySkips(rendered),
                                  !.valid = validateQuery(QueryDocument(query)).valid,
                                  !.dispatched = executed]
        /\ consoleOut' = <<>>
        /\ UNCHANGED <<callVars, RATE_LIMIT, NODE_ENV, utilVars, now, rateVars>>

\* The effect of useSecureQuery, and the render that setIsQueryValid causes
\* when the verdict differs from the state.
useSecureQuery_Effect ==
    LET document == QueryDocument(sq.query)
        verdict == isQuerySafe(rateLimitMap, RATE_LIMIT, NODE_ENV, now, document,
                               enableAuditLogging)
        rendered == [sq EXCEPT !.isQueryValid = verdict.safe, !.effectPending = FALSE]
        request == Request("useSecureQuery", sq.query, sq.variables,
                           VariablesOf(sq.variables), sq.onError)
        executed == IF useQuerySkips(sq) /\ ~useQuerySkips(rendered)
                    THEN <<request>> ELSE <<>>
    IN  /\ opCount < MaxOps
        /\ sq.mounted
        /\ sq.effectPending
        /\ IsQuerySafeStep(document)
        /\ sq' = rendered
        /\ transport' = transport \cup Range(executed)
        /\ opCount' = opCount + 1
        /\ lastOp' = [NoOp EXCEPT !.hook = "useSecureQuery", !.step = "effect",
                                  !.query = sq.query, !.variables = sq.variables,
                                  !.skip = useQuerySkips(rendered),
                                  !.valid = validateQuery(document).valid,
                                  !.safe = verdict.safe,
                                  !.dispatched = executed]
        /\ consoleOut' = verdict.console
                         \o (IF verdict.safe THEN <<>>
                             ELSE BlockedLog("useSecureQuery", "UNSAFE_QUERY_BLOCKED",
                                             sq.query, sq.variables))
        /\ UNCHANGED <<callVars, RATE_LIMIT, NODE_ENV, utilVars, now>>

\* secureExecuteLazyQuery(executeOptions) of useSecureLazyQuery(query, {onError})
secureExecuteLazyQuery(query, variables, onError) ==
    LET document == QueryDocument(query)
        queryValid == isQuerySafe(rateLimitMap, RATE_LIMIT, NODE_ENV, now, document,
                                  enableAuditLogging)
        request == Request("useSecureLazyQuery", query, variables, VariablesOf(variables),
                           onError)
        executed == IF queryValid.safe THEN <<request>> ELSE <<>>
    IN  /\ opCount < MaxOps
        /\ IsQuerySafeStep(document)
        /\ transport' = transport \cup Range(executed)
        /\ opCount' = opCount + 1
        /\ lastOp' = [NoOp EXCEPT !.hook = "useSecureLazyQuery", !.step = "execute",
                                  !.query = query, !.variables = variables,
                                  !.valid = validateQuery(document).valid,
                                  !.safe = queryValid.safe,
                                  !.dispatched = executed]
        /\ consoleOut' = queryValid.console
                         \o (IF queryValid.safe THEN <<>>
                             ELSE BlockedLog("useSecureLazyQuery", "UNSAFE_LAZY_QUERY_BLOCKED",
                                             query, variables))
        /\ UNCHANGED <<callVars, RATE_LIMIT, NODE_ENV, utilVars, now, sq>>

\* a mutant that hands the mutation to executeMutation whatever isQuerySafe says
secureExecuteMutation_dispatchAnyway(queryValid, request) ==
    [threw |-> ~queryValid, executed |-> <<request>>]

\* secureExecuteMutation: whether it throws, and its calls of executeMutation
secureExecuteMutation(queryValid, request) ==
    IF ~queryValid
    THEN [threw |-> TRUE, executed |-> <<>>]
    ELSE [threw |-> FALSE, executed |-> <<request>>]

\* secureExecuteMutation(executeOptions) of useSecureMutation(mutation, {onError})
CallSecureExecuteMutation(mutation, variables, onError) ==
    LET document == MutationDocument(mutation)
        queryValid == isQuerySafe(rateLimitMap, RATE_LIMIT, NODE_ENV, now, document,
                                  enableAuditLogging)
        request == Request("useSecureMutation", mutation, variables, VariablesOf(variables),
                           onError)
        outcome == secureExecuteMutation(queryValid.safe, request)
    IN  /\ opCount < MaxOps
        /\ IsQuerySafeStep(document)
        /\ transport' = transport \cup Range(outcome.executed)
        /\ opCount' = opCount + 1
        /\ lastOp' = [NoOp EXCEPT !.hook = "useSecureMutation", !.step = "execute",
                                  !.query = mutation, !.variables = variables,
                                  !.valid = validateQuery(document).valid,
                                  !.safe = queryValid.safe,
                                  !.threw = outcome.threw,
                                  !.dispatched = outcome.executed]
        /\ consoleOut' = queryValid.console
                         \o (IF queryValid.safe THEN <<>>
                             ELSE BlockedLog("useSecureMutation", "UNSAFE_MUTATION_BLOCKED",
                                             mutation, variables))
        /\ UNCHANGED <<callVars, RATE_LIMIT, NODE_ENV, utilVars, now, sq>>

\* console.warn of the useRickAndMorty wrapper
Warning(text) == [label |-> text]

\* what the useRickAndMorty wrapper does after its useQuery call: validateQuery,
\* then checkRateLimit() for a valid document
WrapperVerdict(query) ==
    LET validation == validateQuery(QueryDocument(query))
        rateLimitCheck == checkRateLimit(rateLimitMap, "default", RATE_LIMIT, now)
    IN  IF ~validation.valid
        THEN [valid |-> FALSE, safe |-> FALSE,
              console |-> <<Warning("Query validation failed:")>>]
        ELSE IF ~rateLimitCheck.allowed
        THEN [valid |-> TRUE, safe |-> FALSE,
              console |-> <<Warning("Rate limit exceeded. Requests remaining:")>>]
        ELSE [valid |-> TRUE, safe |-> TRUE, console |-> <<>>]

\* One render of a component that calls the useSecureQuery wrapper of
\* useRickAndMorty.ts: useQuery runs first, with sanitized variables.
useRickAndMorty_Render(query, variables, skip) ==
    LET sanitized == IF variables # "none"
                     THEN sanitizeVariables(VariablesOf(variables))
                     ELSE Object(<<>>)
        request == Request("useRickAndMorty", query, variables, sanitized, FALSE)
        executed == IF skip THEN <<>> ELSE <<request>>
        verdict == WrapperVerdict(query)
    IN  /\ opCount < MaxOps
        /\ IsQuerySafeStep(QueryDocument(query))
        /\ transport' = transport \cup Range(executed)
        /\ opCount' = opCount + 1
        /\ lastOp' = [NoOp EXCEPT !.hook = "useRickAndMorty", !.step = "render",
                                  !.query = query, !.variables = variables,
                                  !.skip = skip,
                                  !.valid = verdict.valid,
                                  !.safe = verdict.safe,
                                  !.dispatched = executed]
        /\ consoleOut' = verdict.console
        /\ UNCHANGED <<callVars, RATE_LIMIT, NODE_ENV, utilVars, now, sq>>

SecureApolloHooks == {"useSecureQuery", "useSecureLazyQuery", "useSecureMutation"}

\* the errors a failed operation comes back with
TransportErrors == {e \in ApolloErrors : Len(e.graphQLErrors) < 2}

\* Apollo reports the outcome of a query of useSecureQuery only while the
\* component still asks for it and does not skip it
Observed(request) ==
    request.hook = "useSecureQuery" =>
        /\ sq.mounted
        /\ sq.query = request.query
        /\ sq.variables = request.callerVariables
        /\ ~useQuerySkips(sq)

\* apolloOptions.variables and apolloOptions.onError of the hook that sent the request
OptionsOf(request) ==
    IF request.hook = "useSecureQuery"
    THEN [variables |-> VariablesOf(sq.variables), onError |-> sq.onError]
    ELSE [variables |-> Undefined, onError |-> request.onError]

OperationName(hook, suffix) ==
    IF hook = "useSecureQuery" THEN "QUERY_" \o suffix
    ELSE IF hook = "useSecureLazyQuery" THEN "LAZY_QUERY_" \o suffix
    ELSE "MUTATION_" \o suffix

Delivery(channel, kind, value) == [channel |-> channel, kind |-> kind, value |-> value]

\* A secure Apollo hook is told that its operation failed: the onError option
\* of the hook runs, then the hook renders with the error.
SecureHookFails(request, error) ==
    LET options == OptionsOf(request)
        logged == IF enableAuditLogging
                  THEN logSecureGraphQLOperation(NODE_ENV, now,
                           OperationName(request.hook, "ERROR"),
                           DocumentOf(request.hook, request.query),
                           options.variables, Undefined, <<error>>).console
                  ELSE <<>>
        secureError == handleGraphQLError(NODE_ENV, now, error, enableAuditLogging)
    IN  [console |-> logged \o secureError.console,
         delivered |-> (IF options.onError
                        THEN <<Delivery("onError", "raw", error)>> ELSE <<>>)
                       \o <<Delivery("error", "message", secureError.message)>>]

\* The useRickAndMorty wrapper renders with the failed result of useQuery.
WrapperFails(request, error) ==
    LET verdict == WrapperVerdict(request.query)
    IN  [console |-> verdict.console,
         delivered |-> IF ~verdict.valid
                       THEN <<Delivery("error", "literal", "Query validation failed")>>
                       ELSE IF ~verdict.safe
                       THEN <<Delivery("error", "literal",
                                       "Rate limit exceeded. Please wait before making more requests.")>>
                       ELSE <<Delivery("error", "raw", error)>>]

\* the part of a transport outcome that is the same for success and failure
Settle(request, step, error, outcome) ==
    /\ opCount < MaxOps
    /\ request \in transport
    /\ transport' = transport \ {request}
    /\ opCount' = opCount + 1
    /\ IF request.hook = "useRickAndMorty"
       THEN IsQuerySafeStep(QueryDocument(request.query))
       ELSE UNCHANGED rateVars
    /\ lastOp' = [NoOp EXCEPT !.hook = request.hook, !.step = step,
                              !.query = request.query,
                              !.variables = request.callerVariables,
                              !.error = error,
                              !.delivered = outcome.delivered]
    /\ consoleOut' = outcome.console
    /\ UNCHANGED <<callVars, RATE_LIMIT, NODE_ENV, utilVars, now, sq>>

TransportFail(request, error) ==
    Settle(request, "fail", <<error>>,
           IF ~Observed(request) THEN [console |-> <<>>, delivered |-> <<>>]
           ELSE IF request.hook = "useRickAndMorty" THEN WrapperFails(request, error)
           ELSE SecureHookFails(request, error))

\* A secure Apollo hook is told that its operation completed: the onCompleted
\* option of the hook runs, then the hook renders with the data.
SecureHookCompletes(request, data) ==
    [console |-> IF enableAuditLogging
                 THEN logSecureGraphQLOperation(NODE_ENV, now,
                          OperationName(request.hook, "COMPLETED"),
                          DocumentOf(request.hook, request.query),
                          OptionsOf(request).variables, data, <<>>).console
                 ELSE <<>>,
     delivered |-> <<Delivery("data", "masked", maskGraphQLResponse(NODE_ENV, data, TRUE))>>]

WrapperCompletes(request, data) ==
    [console |-> WrapperVerdict(request.query).console,
     delivered |-> <<Delivery("data", "raw", data)>>]

TransportSucceed(request) ==
    Settle(request, "complete", <<>>,
           IF ~Observed(request) THEN [console |-> <<>>, delivered |-> <<>>]
           ELSE IF request.hook = "useRickAndMorty" THEN WrapperCompletes(request, ResponseData)
           ELSE SecureHookCompletes(request, ResponseData))

InitHooks ==
    /\ InitCommon
    /\ argument = <<>>
    /\ RATE_LIMIT = 1
    /\ NODE_ENV \in {"production", "test"}

NextHooks ==
    \/ \E query \in QueryNames, variables \in VariableObjects, skip \in BOOLEAN :
           useSecureQuery_Render(query, variables, skip, TRUE)
    \/ useSecureQuery_Effect
    \/ \E query \in QueryNames, onError \in BOOLEAN :
           secureExecuteLazyQuery(query, "script", onError)
    \/ \E mutation \in QueryNames, onError \in BOOLEAN :
           CallSecureExecuteMutation(mutation, "script", onError)
    \/ \E query \in QueryNames, variables \in {"script", "none"} :
           useRickAndMorty_Render(query, variables, FALSE)
    \/ \E request \in transport, error \in TransportErrors : TransportFail(request, error)
    \/ \E request \in transport : TransportSucceed(request)

SpecHooks == InitHooks /\ [][NextHooks]_vars

\* ------------------------------------------------------------------------
\* Hook claims
\* ------------------------------------------------------------------------
\* C5: a query for which validateQuery returns invalid is never handed to the
\* transport: no render of a secure query hook executes useQuery un-skipped
\* for it, the first render before the validation effect included, and no
\* such query is ever in flight.
C5_InvalidQueryNeverExecuted ==
    /\ \A request \in transport :
           request.hook \in {"useSecureQuery", "useRickAndMorty"} =>
               validateQuery(QueryDocument(request.query)).valid
    /\ (lastOp.hook \in {"useSecureQuery", "useRickAndMorty"}
            /\ lastOp.step \in {"render", "effect"}
            /\ ~validateQuery(QueryDocument(lastOp.query)).valid) =>
           lastOp.dispatched = <<>>

\* C6: every operation handed to the transport by useSecureQuery,
\* useSecureLazyQuery or useSecureMutation carries sanitizeVariables of the
\* caller's variables, never the caller's own variables.
C6_DispatchedVariablesSanitized ==
    \A request \in transport :
        request.hook \in SecureApolloHooks =>
            request.variables = sanitizeVariables(VariablesOf(request.callerVariables))

\* isQuerySafe as the claims read it: validateQuery accepted the document and
\* the checkRateLimit() call that followed allowed it
AcceptedByIsQuerySafe(document) ==
    /\ validateQuery(document).valid
    /\ history # <<>>
    /\ history[Len(history)].allowed

\* C7: when isQuerySafe rejects the mutation (validation failure or rate
\* limit) secureExecuteMutation throws and executeMutation is not invoked for
\* that call; when isQuerySafe accepts it, nothing is thrown and
\* executeMutation is invoked exactly once, with the caller's execute options.
C7_MutationThrowsOrExecutesOnce ==
    (lastOp.hook = "useSecureMutation" /\ lastOp.step = "execute") =>
        IF AcceptedByIsQuerySafe(MutationDocument(lastOp.query))
        THEN /\ ~lastOp.threw
             /\ Len(lastOp.dispatched) = 1
             /\ lastOp.dispatched[1].query = lastOp.query
             /\ lastOp.dispatched[1].variables = VariablesOf(lastOp.variables)
             /\ lastOp.dispatched[1] \in transport
        ELSE /\ lastOp.threw
             /\ lastOp.dispatched = <<>>

\* a mutation that passes validateQuery is rejected by the rate limiter
C7_Witness ==
    /\ lastOp.hook = "useSecureMutation"
    /\ lastOp.step = "execute"
    /\ validateQuery(MutationDocument(lastOp.query)).valid
    /\ ~history[Len(history)].allowed
    /\ lastOp.threw
    /\ \E request \in transport : request.hook = "useSecureMutation"

\* C8: every error of a failed transport operation that reaches the caller of
\* a secure hook, through the returned error field or through the caller's
\* onError callback, is the string handleGraphQLError returns for it; the raw
\* error object is never delivered.
C8_OnlyMaskedErrorsDelivered ==
    (lastOp.hook \in SecureApolloHooks /\ lastOp.step = "fail") =>
        \A i \in DOMAIN lastOp.delivered :
            /\ lastOp.delivered[i].kind = "message"
            /\ lastOp.delivered[i].value =
                   handleGraphQLError(NODE_ENV, now, lastOp.error[1], FALSE).message


\* ------------------------------------------------------------------------
\* Direct calls of the query analysis: validateQuery, analyzeQueryDepth and
\* analyzeQueryComplexity applied to a document
\* ------------------------------------------------------------------------
MaxNodes == 4
MaxChain == 12

\* the sequences of selections with n nodes in all; a selection without
\* children is a field without a selection set, a field with an empty one,
\* a field whose selection set lacks its selections array, or null
RECURSIVE Selections(_)
Selections(n) ==
    IF n = 0
    THEN {<<>>}
    ELSE UNION {{<<first>> \o rest :
                     first \in IF k = 1
                               THEN {Field(NoSelectionSet), Field(SelectionSet(<<>>)),
                                     Field(MalformedSelectionSet), NullNode}
                               ELSE {Field(SelectionSet(sels)) : sels \in Selections(k - 1)},
                     rest \in Selections(n - k)} : k \in 1..n}

\* the documents the analysis is called with: the documents of the tests
\* (no definitions array, an empty one, a null definition, createMockQuery
\* chains), every tree of up to MaxNodes selections under one definition,
\* and pairs of definitions
Documents ==
    LET trees == {OperationDefinition("query", SelectionSet(sels)) :
                      sels \in UNION {Selections(n) : n \in 0..MaxNodes}}
        single == trees \cup {NullNode,
                              OperationDefinition("query", NoSelectionSet),
                              OperationDefinition("query", MalformedSelectionSet)}
        paired == {NullNode, OperationDefinition("query", NoSelectionSet)}
                  \cup {OperationDefinition("mutation", MockSelectionSet(k)) : k \in 1..3}
    IN  {DocumentWithoutDefinitions, createEmptyQuery}
        \cup {createMockQuery(k) : k \in 1..MaxChain}
        \cup {Document(<<d>>) : d \in single}
        \cup {Document(<<d, e>>) : d \in paired, e \in paired}

\* a call returns a value or raises
Returned(fn, value) == [fn |-> fn, threw |-> FALSE, value |-> value]
Raised(fn) == [fn |-> fn, threw |-> TRUE, value |-> <<>>]

CallValidateQuery ==
    /\ returned' = Returned("validateQuery", validateQuery(argument))
    /\ UNCHANGED <<argument, RATE_LIMIT, NODE_ENV, utilVars, now, rateVars, hookVars, outVars>>

CallAnalyzeQueryDepth ==
    /\ returned' = IF AnalysisThrows(argument)
                   THEN Raised("analyzeQueryDepth")
                   ELSE Returned("analyzeQueryDepth", analyzeQueryDepth(argument))
    /\ UNCHANGED <<argument, RATE_LIMIT, NODE_ENV, utilVars, now, rateVars, hookVars, outVars>>

CallAnalyzeQueryComplexity ==
    /\ returned' = IF AnalysisThrows(argument)
                   THEN Raised("analyzeQueryComplexity")
                   ELSE Returned("analyzeQueryComplexity", analyzeQueryComplexity(argument))
    /\ UNCHANGED <<argument, RATE_LIMIT, NODE_ENV, utilVars, now, rateVars, hookVars, outVars>>

InitValidate ==
    /\ InitCommon
    /\ RATE_LIMIT = MaxLimit
    /\ NODE_ENV = "test"
    /\ argument \in Documents

NextValidate ==
    \/ CallValidateQuery
    \/ CallAnalyzeQueryDepth
    \/ CallAnalyzeQueryComplexity

SpecValidate == InitValidate /\ [][NextValidate]_vars


\* ------------------------------------------------------------------------
\* Properties of the query analysis
\* ------------------------------------------------------------------------
\* C11: For every document, malformed ones included, the result of
\* validateQuery has valid = TRUE exactly when its errors list is empty.
C11_ValidIffNoErrors ==
    returned.fn = "validateQuery" =>
        /\ ~returned.threw
        /\ returned.value.valid <=> (Len(returned.value.errors) = 0)

\* validateQuery rejected the empty document with one error
C11_Witness ==
    /\ returned.fn = "validateQuery"
    /\ argument = createEmptyQuery
    /\ returned.value.errors = <<NoDefinitionError>>
    /\ ~returned.value.valid

MaxOfSet(S) == IF S = {} THEN 0 ELSE CHOOSE m \in S : \A n \in S : m >= n

\* 1 plus the depth of the selection's child selections, 0 if it has none
RECURSIVE NestingOf(_)
NestingOf(selection) ==
    1 + (IF selection.selectionSet.present
         THEN MaxOfSet({NestingOf(child) : child \in Range(selection.selectionSet.selections)})
         ELSE 0)

\* the reference depth of a well-formed document: the maximum over all
\* definitions and all their top-level selections
ReferenceDepth(query) ==
    IF ~query.definitionsPresent
    THEN 0
    ELSE MaxOfSet(UNION {{NestingOf(selection) : selection \in Range(definition.selectionSet.selections)} :
                             definition \in {d \in Range(query.definitions) : d.selectionSet.present}})

\* C12: For every well-formed query whose depth exceeds MAX_QUERY_DEPTH,
\* validateQuery returns valid = FALSE and its errors contain a depth error
\* whose text names the measured depth and the configured maximum.
C12_DeepQueryRejected ==
    (/\ returned.fn = "validateQuery"
     /\ ~AnalysisThrows(argument)
     /\ ReferenceDepth(argument) > MAX_QUERY_DEPTH) =>
        /\ ~returned.value.valid
        /\ \E i \in 1..Len(returned.value.errors) :
               LET e == returned.value.errors[i]
               IN  /\ e = DepthError(ReferenceDepth(argument))
                   /\ \E at \in 1..Len(ErrorText(e)) :
                          MatchesAt(ErrorText(e), at,
                                    <<"d", "e", "p", "t", "h", " ">> \o ToChars(ReferenceDepth(argument)) \o <<" ">>)
                   /\ \E at \in 1..Len(ErrorText(e)) :
                          /\ MatchesAt(ErrorText(e), at, <<"o", "f", " ">> \o ToChars(MAX_QUERY_DEPTH))
                          /\ at + 2 + Len(ToChars(MAX_QUERY_DEPTH)) = Len(ErrorText(e))

\* validateQuery rejected a chain one level deeper than the maximum
C12_Witness ==
    /\ returned.fn = "validateQuery"
    /\ argument = createMockQuery(MAX_QUERY_DEPTH + 1)
    /\ ~returned.value.valid
    /\ DepthError(MAX_QUERY_DEPTH + 1) \in Range(returned.value.errors)

C14_DepthIsReferenceDepth ==
    (returned.fn = "analyzeQueryDepth" /\ ~AnalysisThrows(argument)) =>
        /\ ~returned.threw
        /\ returned.value = ReferenceDepth(argument)
        /\ \A k \in 1..MaxChain : argument = createMockQuery(k) => returned.value = k
        /\ (~argument.definitionsPresent \/ argument.definitions = <<>>) => returned.value = 0

\* analyzeQueryDepth measured two definitions of different depth
C14_Witness ==
    /\ returned.fn = "analyzeQueryDepth"
    /\ ~returned.threw
    /\ argument.definitionsPresent
    /\ Len(argument.definitions) = 2
    /\ argument.definitions[1] # argument.definitions[2]
    /\ returned.value = 3

\* the number of selections `level` levels below a selection set
RECURSIVE CountAtLevel(_, _)
CountAtLevel(selections, level) ==
    IF level = 1
    THEN Len(selections)
    ELSE SumOfSeq([i \in 1..Len(selections) |->
             IF selections[i].selectionSet.present
             THEN CountAtLevel(selections[i].selectionSet.selections, level - 1)
             ELSE 0])

\* the sum over all definitions of 2^(level-1) for every selection
ReferenceComplexity(query) ==
    IF ~query.definitionsPresent
    THEN 0
    ELSE SumOfSeq([i \in 1..Len(query.definitions) |->
             IF query.definitions[i].selectionSet.present
             THEN SumOfSeq([level \in 1..ReferenceDepth(query) |->
                      CountAtLevel(query.definitions[i].selectionSet.selections, level)
                      * 2^(level - 1)])
             ELSE 0])

\* C15: analyzeQueryComplexity equals the sum, over all definitions, of
\* 2^(level-1) for every selection, top-level selections being at level 1;
\* it is 0 for a document with missing or empty definitions.
C15_ComplexityIsWeightedCount ==
    (returned.fn = "analyzeQueryComplexity" /\ ~AnalysisThrows(argument)) =>
        /\ ~returned.threw
        /\ returned.value = ReferenceComplexity(argument)
        /\ (~argument.definitionsPresent \/ argument.definitions = <<>>) => returned.value = 0

\* analyzeQueryComplexity weighed a tree with two selections on each of two levels
C15_Witness ==
    /\ returned.fn = "analyzeQueryComplexity"
    /\ ~returned.threw
    /\ argument.definitionsPresent
    /\ Len(argument.definitions) = 1
    /\ argument.definitions[1].selectionSet.present
    /\ CountAtLevel(argument.definitions[1].selectionSet.selections, 1) = 2
    /\ CountAtLevel(argument.definitions[1].selectionSet.selections, 2) = 2
    /\ returned.value = 6


\* ------------------------------------------------------------------------
\* Direct calls of a DataMasker: maskResponseData and createAuditLogData
\* applied to a JSON-like value
\* ------------------------------------------------------------------------
MaxEntries == 2
MaxStringLen == 12

\* new DataMasker(config): { ...DEFAULT_MASKING_CONFIG, ...config }
createSecureDataMasker(nodeEnv, config) ==
    [k \in DOMAIN DEFAULT_MASKING_CONFIG(nodeEnv) |->
        IF k \in DOMAIN config THEN config[k] ELSE DEFAULT_MASKING_CONFIG(nodeEnv)[k]]

\* field names that match the configured fragments in each way: a sensitive
\* fragment itself, a partial fragment itself and a name that matches nothing
CoreFieldNames ==
    {<<"i", "d">>, <<"n", "a", "m", "e">>, <<"t", "i", "t", "l", "e">>}

\* and: a part of a sensitive fragment in another letter case, a name
\* containing a sensitive and a partial fragment, a name containing a partial
\* fragment in another letter case, and a part of a partial fragment
FieldNames ==
    CoreFieldNames \cup {<<"I">>, <<"n", "a", "m", "e", "I", "d">>, <<"U", "s", "e", "r", "n", "a", "m", "e">>, <<"n", "a", "m">>}

\* the first n characters of a character's name
NameOfLength(n) == SubSeq(<<"R", "i", "c", "k", " ", "S", "a", "n", "c", "h", "e", "z", " ", "C", "1", "3", "7">>, 1, n)

\* the character of the documentation's masking example, with its nested
\* record under `origin` or under `location`
CharacterData(nested) ==
    Object(<<Entry(<<"c", "h", "a", "r", "a", "c", "t", "e", "r", "s">>, Object(<<Entry(<<"r", "e", "s", "u", "l", "t", "s">>, Array(<<
        Object(<<Entry(<<"i", "d">>, String(<<"1", "2", "3">>)),
                 Entry(<<"n", "a", "m", "e">>, String(<<"R", "i", "c", "k", " ", "S", "a", "n", "c", "h", "e", "z">>)),
                 Entry(<<"c", "r", "e", "a", "t", "e", "d">>, String(<<"2", "0", "1", "7", "-", "1", "1", "-", "0", "4", "T", "1", "8", ":", "4", "8", ":", "4", "6", ".", "2", "5", "0", "Z">>)),
                 Entry(<<"i", "m", "a", "g", "e">>, String(<<"h", "t", "t", "p", "s", ":", "/", "/", "r", "i", "c", "k", "a", "n", "d", "m", "o", "r", "t", "y", "a", "p", "i", ".", "c", "o", "m", "/", "a", "p", "i", "/", "c", "h", "a", "r", "a", "c", "t", "e", "r", "/", "a", "v", "a", "t", "a", "r", "/", "1", ".", "j", "p", "e", "g">>)),
                 Entry(nested, Object(<<Entry(<<"i", "d">>, String(<<"4", "5", "6">>)),
                                        Entry(<<"d", "i", "m", "e", "n", "s", "i", "o", "n">>, String(<<"C", "-", "1", "3", "7">>))>>))>>)>>))>>))>>)

\* the values the masker is called with: scalars; objects of up to
\* MaxEntries scalars, alone and in an array; arrays of scalars; one scalar
\* under every field name, alone and nested up to three levels; a string
\* of every length under a partially masked field; and the documented example
JsonValues ==
    LET leaves == {String(NameOfLength(5)), String(NameOfLength(MaxStringLen)), Number(1), Null}
        objects == {Object(e) : e \in UNION {
                        {e \in [1..n -> [key : CoreFieldNames, value : leaves]] :
                             \A i, j \in 1..n : i # j => e[i].key # e[j].key} : n \in 0..MaxEntries}}
        arrays == {Array(a) : a \in UNION {[1..n -> leaves] : n \in 0..MaxEntries}}
        narrow == {Object(<<Entry(k, v)>>) : k \in FieldNames, v \in leaves}
                  \cup {Array(<<v>>) : v \in leaves}
        wrap(names, values) == {Object(<<Entry(k, v)>>) : k \in names, v \in values}
                               \cup {Array(<<v>>) : v \in values}
        strings == {Object(<<Entry(<<"n", "a", "m", "e">>, String(NameOfLength(n)))>>) : n \in 0..MaxStringLen}
    IN  leaves \cup objects \cup arrays \cup {Array(<<v>>) : v \in objects} \cup narrow
        \cup wrap(FieldNames, narrow) \cup wrap(CoreFieldNames, wrap(CoreFieldNames, narrow))
        \cup strings \cup {CharacterData(<<"o", "r", "i", "g", "i", "n">>), CharacterData(<<"l", "o", "c", "a", "t", "i", "o", "n">>)}

CallMaskResponseData ==
    /\ returned' = Returned("maskResponseData",
                            maskResponseDataWith(argument.masker, argument.data))
    /\ UNCHANGED <<argument, RATE_LIMIT, NODE_ENV, utilVars, now, rateVars, hookVars, outVars>>

CallCreateAuditLogData ==
    /\ returned' = Returned("createAuditLogData",
                            createAuditLogDataWith(argument.masker, argument.data))
    /\ UNCHANGED <<argument, RATE_LIMIT, NODE_ENV, utilVars, now, rateVars, hookVars, outVars>>

\* maskVariables takes a variables mapping
CallMaskVariables ==
    /\ argument.data.type = "object"
    /\ returned' = Returned("maskVariables", maskVariables(argument.masker, argument.data))
    /\ UNCHANGED <<argument, RATE_LIMIT, NODE_ENV, utilVars, now, rateVars, hookVars, outVars>>

InitMask ==
    /\ InitCommon
    /\ RATE_LIMIT = MaxLimit
    /\ NODE_ENV \in {"production", "development"}
    /\ argument \in [masker : {createSecureDataMasker(NODE_ENV, [logSafeMode |-> b]) :
                                    b \in IF NODE_ENV = "production" THEN BOOLEAN ELSE {TRUE}},
                     data : JsonValues]

NextMask ==
    \/ CallMaskResponseData
    \/ CallCreateAuditLogData
    \/ CallMaskVariables

SpecMask == InitMask /\ [][NextMask]_vars


\* ------------------------------------------------------------------------
\* Properties of the DataMasker
\* ------------------------------------------------------------------------
\* a fragment occurs in the field name, letter case ignored
ContainsFragment(fragments, fieldName) ==
    \E i \in DOMAIN fragments : includes(toLowerCase(fieldName), toLowerCase(fragments[i]))

\* a fragment occurs in the field name or the field name in a fragment
MatchesEitherWay(fragments, fieldName) ==
    \/ ContainsFragment(fragments, fieldName)
    \/ \E i \in DOMAIN fragments : includes(toLowerCase(fragments[i]), toLowerCase(fieldName))

\* in `out` the value of every sensitive key of `in` is the masking pattern,
\* at every depth that is not itself below a sensitive key
RECURSIVE SensitiveValuesReplaced(_, _, _)
SensitiveValuesReplaced(config, in, out) ==
    IF in.type = "array"
    THEN /\ out.type = "array"
         /\ Len(out.items) = Len(in.items)
         /\ \A i \in DOMAIN in.items : SensitiveValuesReplaced(config, in.items[i], out.items[i])
    ELSE IF in.type = "object"
    THEN /\ out.type = "object"
         /\ Len(out.entries) = Len(in.entries)
         /\ \A i \in DOMAIN in.entries :
                /\ out.entries[i].key = in.entries[i].key
                /\ IF MatchesEitherWay(config.sensitiveFields, in.entries[i].key)
                   THEN out.entries[i].value = String(config.maskingPattern)
                   ELSE in.entries[i].value.type \in {"object", "array"} =>
                            SensitiveValuesReplaced(config, in.entries[i].value, out.entries[i].value)
    ELSE TRUE

StringEntries(config, data) ==
    IF data.type # "object"
    THEN {}
    ELSE {i \in DOMAIN data.entries :
              /\ data.entries[i].value.type = "string"
              /\ ~MatchesEitherWay(config.sensitiveFields, data.entries[i].key)}

\* C17 as claimed: a field is partially masked if a partial fragment occurs
\* in its name or its name occurs in a partial fragment, letter case ignored.
C17_PartialMatchEitherWay ==
    (returned.fn = "maskResponseData" /\ argument.masker.enableMasking) =>
        \A i \in StringEntries(argument.masker, argument.data) :
            returned.value.entries[i].value =
                IF MatchesEitherWay(argument.masker.partialMaskingFields, argument.data.entries[i].key)
                THEN String(partialMask(argument.masker, argument.data.entries[i].value.chars))
                ELSE argument.data.entries[i].value

\* C17: a field is partially masked exactly if a partial fragment occurs in
\* its name, letter case ignored; a name that is only a part of a fragment
\* is not partially masked.
C17_PartialMatchOneWay ==
    (returned.fn = "maskResponseData" /\ argument.masker.enableMasking) =>
        \A i \in StringEntries(argument.masker, argument.data) :
            returned.value.entries[i].value =
                IF ContainsFragment(argument.masker.partialMaskingFields, argument.data.entries[i].key)
                THEN String(partialMask(argument.masker, argument.data.entries[i].value.chars))
                ELSE argument.data.entries[i].value

\* a string under a name that is only a part of a fragment stayed as it was
C17_Witness ==
    /\ returned.fn = "maskResponseData"
    /\ argument.masker.enableMasking
    /\ argument.data = Object(<<Entry(<<"n", "a", "m">>, String(NameOfLength(MaxStringLen)))>>)
    /\ returned.value = argument.data

\* max(1, floor(0.3 * n)) for n > 4
VisibleChars(n) ==
    CHOOSE k \in 1..n : 10 * k <= 3 * n /\ 3 * n < 10 * (k + 1)

RECURSIVE NoSensitiveKey(_, _)
NoSensitiveKey(config, value) ==
    IF value.type = "array"
    THEN \A i \in DOMAIN value.items : NoSensitiveKey(config, value.items[i])
    ELSE IF value.type = "object"
    THEN \A i \in DOMAIN value.entries :
             /\ ~MatchesEitherWay(config.sensitiveFields, value.entries[i].key)
             /\ NoSensitiveKey(config, value.entries[i].value)
    ELSE TRUE

\* every key of `in` that is not sensitive is a key of `out`, with a string
\* under a partial-mask key partially masked
RECURSIVE PartialStringsMasked(_, _, _)
PartialStringsMasked(config, in, out) ==
    IF in.type = "array"
    THEN /\ out.type = "array"
         /\ Len(out.items) = Len(in.items)
         /\ \A i \in DOMAIN in.items : PartialStringsMasked(config, in.items[i], out.items[i])
    ELSE IF in.type = "object"
    THEN /\ out.type = "object"
         /\ \A i \in DOMAIN in.entries :
                ~MatchesEitherWay(config.sensitiveFields, in.entries[i].key) =>
                    \E j \in DOMAIN out.entries :
                        /\ out.entries[j].key = in.entries[i].key
                        /\ IF /\ in.entries[i].value.type = "string"
                              /\ ContainsFragment(config.partialMaskingFields, in.entries[i].key)
                           THEN out.entries[j].value =
                                    String(partialMask(config, in.entries[i].value.chars))
                           ELSE PartialStringsMasked(config, in.entries[i].value, out.entries[j].value)
    ELSE out = in

RECURSIVE HasLongPartialString(_, _)
HasLongPartialString(config, value) ==
    IF value.type = "array"
    THEN \E i \in DOMAIN value.items : HasLongPartialString(config, value.items[i])
    ELSE IF value.type = "object"
    THEN \E i \in DOMAIN value.entries :
             /\ ~MatchesEitherWay(config.sensitiveFields, value.entries[i].key)
             /\ IF value.entries[i].value.type = "string"
                THEN /\ ContainsFragment(config.partialMaskingFields, value.entries[i].key)
                     /\ Len(value.entries[i].value.chars) >= 10
                ELSE HasLongPartialString(config, value.entries[i].value)
    ELSE FALSE

\* C20 as claimed: with masking enabled, maskResponseData applied to its own
\* output returns that output, for fully and for partially masked fields.
C20_MaskingIdempotent ==
    (returned.fn = "maskResponseData" /\ argument.masker.enableMasking) =>
        maskResponseDataWith(argument.masker, returned.value) = returned.value

\* C20: with masking enabled, maskResponseData applied to its own output
\* returns that output exactly when the input holds no string of 10 or more
\* characters under a partial-mask key; fully masked fields stay the
\* masking pattern, and a partially masked string of 10 or more characters
\* is masked again to fewer visible characters.
C20_IdempotentUnlessLongPartial ==
    (returned.fn = "maskResponseData" /\ argument.masker.enableMasking) =>
        /\ (maskResponseDataWith(argument.masker, returned.value) = returned.value)
               <=> ~HasLongPartialString(argument.masker, argument.data)
        /\ SensitiveValuesReplaced(argument.masker, returned.value,
                                   maskResponseDataWith(argument.masker, returned.value))

\* a 12-character name was masked to 9 characters and would be masked again to 7
C20_Witness ==
    /\ returned.fn = "maskResponseData"
    /\ argument.masker.enableMasking
    /\ argument.data = Object(<<Entry(<<"n", "a", "m", "e">>, String(<<"R", "i", "c", "k", " ", "S", "a", "n", "c", "h", "e", "z">>))>>)
    /\ returned.value = Object(<<Entry(<<"n", "a", "m", "e">>, String(<<"R", "i", "c", "*", "*", "*", "h", "e", "z">>))>>)
    /\ maskResponseDataWith(argument.masker, returned.value)
           = Object(<<Entry(<<"n", "a", "m", "e">>, String(<<"R", "i", "*", "*", "*", "e", "z">>))>>)


\* the keys of `out` are keys of `in` in their order in `in`
RECURSIVE KeysInOrder(_, _)
KeysInOrder(in, out) ==
    IF out = <<>> THEN TRUE
    ELSE IF in = <<>> THEN FALSE
    ELSE IF Head(in).key = Head(out).key
         THEN KeysInOrder(Tail(in), Tail(out))
         ELSE KeysInOrder(Tail(in), out)

\* `out` has the shape of `in`: arrays stay arrays of the same length,
\* mappings stay mappings whose keys are keys of `in` in the same order,
\* and so below every key that is not sensitive
RECURSIVE ShapeKept(_, _, _)
ShapeKept(config, in, out) ==
    IF in.type = "array"
    THEN /\ out.type = "array"
         /\ Len(out.items) = Len(in.items)
         /\ \A i \in DOMAIN in.items : ShapeKept(config, in.items[i], out.items[i])
    ELSE IF in.type = "object"
    THEN /\ out.type = "object"
         /\ KeysInOrder(in.entries, out.entries)
         /\ \A i \in DOMAIN in.entries : \A j \in DOMAIN out.entries :
                (/\ in.entries[i].key = out.entries[j].key
                 /\ ~MatchesEitherWay(config.sensitiveFields, in.entries[i].key)) =>
                    ShapeKept(config, in.entries[i].value, out.entries[j].value)
    ELSE out.type = in.type

\* no key of the value is sensitive or a partial-mask key, at any depth
RECURSIVE NoMaskedKey(_, _)
NoMaskedKey(config, value) ==
    IF value.type = "array"
    THEN \A i \in DOMAIN value.items : NoMaskedKey(config, value.items[i])
    ELSE IF value.type = "object"
    THEN \A i \in DOMAIN value.entries :
             /\ ~MatchesEitherWay(config.sensitiveFields, value.entries[i].key)
             /\ ~ContainsFragment(config.partialMaskingFields, value.entries[i].key)
             /\ NoMaskedKey(config, value.entries[i].value)
    ELSE TRUE

\* C21: maskResponseData, maskVariables and createAuditLogData keep the
\* shape of their input: an array stays an array of the same length and
\* order, a nested mapping stays a mapping, the surviving keys keep their
\* order; an input without sensitive or partial-mask keys comes back equal.
C21_ShapeKept ==
    returned.fn \in {"maskResponseData", "maskVariables", "createAuditLogData"} =>
        /\ ShapeKept(argument.masker, argument.data, returned.value)
        /\ NoMaskedKey(argument.masker, argument.data) => returned.value = argument.data


\* in `out` every record stored under `origin` or `location` is still a
\* record, with its `id` and `dimension` replaced by the masking pattern
RECURSIVE NestedRecordsKept(_, _, _)
NestedRecordsKept(config, in, out) ==
    IF in.type = "array"
    THEN /\ out.type = "array"
         /\ Len(out.items) = Len(in.items)
         /\ \A i \in DOMAIN in.items : NestedRecordsKept(config, in.items[i], out.items[i])
    ELSE IF in.type = "object"
    THEN /\ out.type = "object"
         /\ Len(out.entries) = Len(in.entries)
         /\ \A i \in DOMAIN in.entries :
                LET value == in.entries[i].value
                    masked == out.entries[i].value
                IN  IF in.entries[i].key \in {<<"o", "r", "i", "g", "i", "n">>, <<"l", "o", "c", "a", "t", "i", "o", "n">>} /\ value.type = "object"
                    THEN /\ masked.type = "object"
                         /\ Len(masked.entries) = Len(value.entries)
                         /\ \A j \in DOMAIN value.entries :
                                value.entries[j].key \in {<<"i", "d">>, <<"d", "i", "m", "e", "n", "s", "i", "o", "n">>} =>
                                    masked.entries[j] = Entry(value.entries[j].key,
                                                              String(config.maskingPattern))
                    ELSE masked.type = value.type => NestedRecordsKept(config, value, masked)
    ELSE TRUE

\* C22: With the default configuration and masking enabled, maskResponseData
\* recurses into a record stored under `origin` (likewise `location`): the
\* result keeps it as a record whose `id` and `dimension` are each replaced
\* by '***', it does not replace the whole record by the masking pattern.
C22_NestedRecordsKept ==
    (/\ returned.fn = "maskResponseData"
     /\ argument.masker = DEFAULT_MASKING_CONFIG("production")) =>
        NestedRecordsKept(argument.masker, argument.data, returned.value)


\* ------------------------------------------------------------------------
\* sanitizeVariables called on one variables mapping
\* ------------------------------------------------------------------------
\* the variables of the sanitizer's tests: every kind of scalar, under up to
\* MaxEntries keys; arrays of up to MaxEntries scalars or mappings; and a
\* scalar or an array inside one or two nested mappings
SanitizerVariables ==
    LET scalars == {Null, Undefined, Number(42), NaN, Infinity, NegativeInfinity,
                    Boolean(TRUE), Boolean(FALSE), String(<<"J", "o", "h", "n">>),
                    String(<<"<", "s", "c", "r", "i", "p", "t", ">", "x", "<", "/", "s", "c", "r", "i", "p", "t", ">", "t", "a", "g", "2">>), String(<<"j", "a", "v", "a", "s", "c", "r", "i", "p", "t", ":", "a">>),
                    String(<<" ", "o", "n", "c", "l", "i", "c", "k", "=", "a">>)}
        keys == <<<<"u", "s", "e", "r">>, <<"t", "a", "g", "s">>, <<"b", "i", "o">>>>
        dirty == Object(<<Entry(<<"b", "i", "o">>, String(<<"<", "s", "c", "r", "i", "p", "t", ">", "x", "<", "/", "s", "c", "r", "i", "p", "t", ">", "t", "a", "g", "2">>))>>)
        arrays == {Array(a) : a \in UNION {[1..n -> scalars \cup {dirty, Array(<<NaN>>)}] :
                                               n \in 0..MaxEntries}}
        nested == {Object(<<Entry(<<"b", "i", "o">>, v)>>) : v \in scalars \cup arrays}
        flat == UNION {{e \in [1..n -> [key : Range(keys), value : scalars]] :
                            \A i, j \in 1..n : i < j =>
                                \E a, b \in DOMAIN keys : a < b /\ keys[a] = e[i].key
                                                               /\ keys[b] = e[j].key} :
                       n \in 0..MaxEntries}
    IN  {Object(e) : e \in flat}
        \cup {Object(<<Entry(<<"u", "s", "e", "r">>, v)>>) : v \in arrays \cup nested}
        \cup {Object(<<Entry(<<"u", "s", "e", "r">>, Object(<<Entry(<<"u", "s", "e", "r">>, v)>>))>>) : v \in nested}

CallSanitizeVariables ==
    /\ returned' = Returned("sanitizeVariables", sanitizeVariables(argument))
    /\ UNCHANGED <<argument, RATE_LIMIT, NODE_ENV, utilVars, now, rateVars, hookVars, outVars>>

InitSanitize ==
    /\ InitCommon
    /\ RATE_LIMIT = MaxLimit
    /\ NODE_ENV = "test"
    /\ argument \in SanitizerVariables

SpecSanitize == InitSanitize /\ [][CallSanitizeVariables]_vars

\* `out` is `in` sanitized as the specification describes it, key by key
RECURSIVE SanitizedAsSpecified(_, _)
SanitizedAsSpecified(in, out) ==
    /\ out.type = "object"
    /\ Len(out.entries) = Len(in.entries)
    /\ \A i \in DOMAIN in.entries :
           LET value == in.entries[i].value
               clean == out.entries[i].value
           IN  /\ out.entries[i].key = in.entries[i].key
               /\ IF value.type \in {"null", "undefined", "boolean"}
                  THEN clean = value
                  ELSE IF value.type = "number"
                  THEN clean = (IF value \in {NaN, Infinity, NegativeInfinity}
                                THEN Number(0) ELSE value)
                  ELSE IF value.type = "string"
                  THEN clean = String(sanitizeString(value.chars))
                  ELSE IF value.type = "object"
                  THEN SanitizedAsSpecified(value, clean)
                  ELSE /\ clean.type = "array"
                       /\ Len(clean.items) = Len(value.items)
                       /\ \A j \in DOMAIN value.items :
                              IF value.items[j].type = "string"
                              THEN clean.items[j] = String(sanitizeString(value.items[j].chars))
                              ELSE clean.items[j] = value.items[j]

\* C23: sanitizeVariables returns a new mapping with exactly the keys of its
\* input, in order: null, undefined, booleans and finite numbers are kept,
\* NaN and the infinities become 0, nested mappings are sanitized
\* recursively, and in an array only the string elements are sanitized, every
\* other element is passed through unchanged.  The input is a value of the
\* call, which the function only reads.
C23_SanitizedAsSpecified ==
    returned.fn = "sanitizeVariables" => SanitizedAsSpecified(argument, returned.value)

\* a mapping inside an array came back with its script still in it, next to a
\* sanitized string and a number that was not finite under the same key
C23_Witness ==
    /\ returned.fn = "sanitizeVariables"
    /\ argument = Object(<<Entry(<<"u", "s", "e", "r">>, Array(<<
                      Object(<<Entry(<<"b", "i", "o">>, String(<<"<", "s", "c", "r", "i", "p", "t", ">", "x", "<", "/", "s", "c", "r", "i", "p", "t", ">", "t", "a", "g", "2">>))>>),
                      String(<<"<", "s", "c", "r", "i", "p", "t", ">", "x", "<", "/", "s", "c", "r", "i", "p", "t", ">", "t", "a", "g", "2">>)>>))>>)
    /\ returned.value = Object(<<Entry(<<"u", "s", "e", "r">>, Array(<<
                      Object(<<Entry(<<"b", "i", "o">>, String(<<"<", "s", "c", "r", "i", "p", "t", ">", "x", "<", "/", "s", "c", "r", "i", "p", "t", ">", "t", "a", "g", "2">>))>>),
                      String(<<"t", "a", "g", "2">>)>>))>>)


\* call j of the history opened the window that call i falls into: both are
\* for one identifier, j found no live entry and stored now + windowMs, and
\* no later call before i opened another window
OpenedWindowOf(j, i) ==
    /\ j < i
    /\ history[j].id = history[i].id
    /\ history[j].id \in DOMAIN history[j].after
    /\ \/ history[j].id \notin DOMAIN history[j].before
       \/ history[j].now > history[j].before[history[j].id].resetTime
    /\ history[j].resetTime = history[j].now + windowMs
    /\ history[i].now <= history[j].resetTime

\* C25: A denied checkRateLimit call does not change the map; and for a limit
\* of at least 1 every denied call returns the resetTime that the first call
\* of its window fixed, so all denied calls for one identifier in one window
\* return the same resetTime.
C25_DeniedCallChangesNothing ==
    \A i \in DOMAIN history :
        ~history[i].allowed =>
            /\ history[i].after = history[i].before
            /\ RATE_LIMIT >= 1 =>
                   \E j \in DOMAIN history :
                       /\ OpenedWindowOf(j, i)
                       /\ history[i].resetTime = history[j].resetTime
                       /\ \A k \in DOMAIN history :
                              (~history[k].allowed /\ OpenedWindowOf(j, k)) =>
                                  history[k].resetTime = history[i].resetTime

\* two calls for one identifier were denied at different times of one window
C25_Witness ==
    /\ RATE_LIMIT >= 1
    /\ \E i, k \in DOMAIN history :
           /\ i < k
           /\ ~history[i].allowed /\ ~history[k].allowed
           /\ history[i].id = history[k].id
           /\ history[i].now < history[k].now
           /\ history[i].resetTime = history[k].resetTime
           /\ history[k].after = history[k].before


\* ------------------------------------------------------------------------
\* httpLink: fetch with a timeout
\* ------------------------------------------------------------------------
REQUEST_TIMEOUT == 10000

\* the clock of the link advances by half a timeout
ClockMs == REQUEST_TIMEOUT \div 2

\* fetch rejects with the reason of controller.abort(), an AbortError whose
\* message is the platform's
AbortMessages ==
    {<<"s", "i", "g", "n", "a", "l", " ", "i", "s", " ", "a", "b", "o", "r", "t", "e", "d", " ", "w", "i", "t", "h", "o", "u", "t", " ", "r", "e", "a", "s", "o", "n">>, <<"T", "h", "e", " ", "o", "p", "e", "r", "a", "t", "i", "o", "n", " ", "w", "a", "s", " ", "a", "b", "o", "r", "t", "e", "d", ".">>,
     <<"T", "h", "e", " ", "u", "s", "e", "r", " ", "a", "b", "o", "r", "t", "e", "d", " ", "a", " ", "r", "e", "q", "u", "e", "s", "t", ".">>}

FailedToFetch == ErrorObject("networkError", <<"F", "a", "i", "l", "e", "d", " ", "t", "o", " ", "f", "e", "t", "c", "h">>)

\* what a hook returns as its error for a request that failed with this
\* network error
Surfaced(networkError) ==
    handleGraphQLError(NODE_ENV, now,
                       ApolloError(networkError.message, <<networkError>>, <<>>),
                       TRUE).message

\* fetch(uri, options) of the link: a controller, a timer of REQUEST_TIMEOUT
\* that aborts it, and the platform's fetch with the controller's signal
HttpLinkFetch ==
    /\ Len(fetches) < MaxOps
    /\ now + REQUEST_TIMEOUT <= MaxTicks * ClockMs
    /\ fetches' = Append(fetches, [startedAt |-> now, timer |-> "set", aborted |-> FALSE,
                                   settled |-> "pending", settledAt |-> 0,
                                   surfaced |-> <<>>])
    /\ UNCHANGED <<callVars, RATE_LIMIT, NODE_ENV, now, rateVars, hookVars, outVars, gq>>

\* the platform's fetch settles by itself; finally() clears the timer
FetchSettles(i, outcome) ==
    /\ fetches[i].settled = "pending"
    /\ fetches' = [fetches EXCEPT ![i] =
           [@ EXCEPT !.settled = outcome, !.settledAt = now, !.timer = "cleared",
                     !.surfaced = IF outcome = "rejected" THEN Surfaced(FailedToFetch)
                                  ELSE <<>>]]
    /\ UNCHANGED <<callVars, RATE_LIMIT, NODE_ENV, now, rateVars, hookVars, outVars, gq>>

\* the timer's callback runs, not before REQUEST_TIMEOUT has passed:
\* controller.abort() rejects the fetch, and finally() clears a timer that
\* has fired already
TimeoutFires(i, message) ==
    /\ fetches[i].timer = "set"
    /\ now >= fetches[i].startedAt + REQUEST_TIMEOUT
    /\ fetches' = [fetches EXCEPT ![i] =
           [@ EXCEPT !.aborted = TRUE, !.timer = "fired",
                     !.settled = "rejected", !.settledAt = now,
                     !.surfaced = Surfaced(ErrorObject("networkError", message))]]
    /\ UNCHANGED <<callVars, RATE_LIMIT, NODE_ENV, now, rateVars, hookVars, outVars, gq>>

AdvanceClock ==
    /\ now < MaxTicks * ClockMs
    /\ now' = now + ClockMs
    /\ UNCHANGED <<callVars, RATE_LIMIT, NODE_ENV, utilVars, rateVars, hookVars, outVars>>

InitLink ==
    /\ InitCommon
    /\ argument = <<>>
    /\ RATE_LIMIT = MaxLimit
    /\ NODE_ENV \in {"production", "development"}

NextLink ==
    \/ HttpLinkFetch
    \/ \E i \in DOMAIN fetches, outcome \in {"fulfilled", "rejected"} : FetchSettles(i, outcome)
    \/ \E i \in DOMAIN fetches, message \in AbortMessages : TimeoutFires(i, message)
    \/ AdvanceClock

SpecLink == InitLink /\ [][NextLink]_vars

\* the text tells its reader of a timeout
TimeoutFlavoured(text) ==
    \/ includes(toLowerCase(text), <<"t", "i", "m", "e", "o", "u", "t">>)
    \/ includes(toLowerCase(text), <<"t", "i", "m", "e", "d", " ", "o", "u", "t">>)

\* C24: Every request of the transport either settles by itself, and then
\* its timer is cleared and the abort does not fire, or it is aborted once
\* REQUEST_TIMEOUT has passed since it started; an aborted request has
\* failed, and the error surfaced to the caller tells of a timeout.
C24_SettledOrTimedOut ==
    \A i \in DOMAIN fetches :
        /\ fetches[i].settled = "pending" => fetches[i].timer = "set"
        /\ (fetches[i].settled # "pending" /\ ~fetches[i].aborted) =>
               fetches[i].timer = "cleared"
        /\ fetches[i].aborted =>
               /\ fetches[i].timer = "fired"
               /\ fetches[i].settled = "rejected"
               /\ fetches[i].settledAt >= fetches[i].startedAt + REQUEST_TIMEOUT
               /\ TimeoutFlavoured(fetches[i].surfaced)


\* ------------------------------------------------------------------------
\* useSecureGraphQLQuery: the runs of executeQuery
\* ------------------------------------------------------------------------
\* a variables object whose properties cannot be read: Object.entries throws
ThrownError == ErrorObject("thrown", <<"C", "a", "n", "n", "o", "t", " ", "r", "e", "a", "d", " ", "v", "a", "r", "i", "a", "b", "l", "e", "s">>)

\* One run of the effect of useSecureGraphQLQuery(query, {variables, onError,
\* onRateLimit}): executeQuery from its first setState to its return, given
\* the results of validateQuery and checkRateLimit.  The updaters it queues
\* are applied in order to the state of the last run.  `callbacks` tells
\* whether the caller passed onError and onRateLimit.
executeQueryWith(query, variables, callbacks, document, validation, rateLimitCheck) ==
    LET path == IF ~validation.valid THEN "validation"
                ELSE IF ~rateLimitCheck.allowed THEN "rateLimit"
                ELSE IF variables = "throwing" THEN "exception"
                ELSE "passed"
        started == [gq.state EXCEPT !.loading = TRUE, !.error = <<>>]
        sanitizedVariables == IF variables = "none" THEN Object(<<>>)
                              ELSE sanitizeVariables(VariablesOf(variables))
        sanitizedError == sanitizeErrorMessage(NODE_ENV, ThrownError)
        finished ==
            IF path = "validation"
            THEN [started EXCEPT !.loading = FALSE,
                                 !.validationErrors = [i \in DOMAIN validation.errors |->
                                                          ErrorText(validation.errors[i])],
                                 !.error = <<"Q", "u", "e", "r", "y", " ", "v", "a", "l", "i", "d", "a", "t", "i", "o", "n", " ", "f", "a", "i", "l", "e", "d">>]
            ELSE IF path = "rateLimit"
            THEN [started EXCEPT !.loading = FALSE, !.rateLimited = TRUE,
                                 !.error = <<"R", "a", "t", "e", " ", "l", "i", "m", "i", "t", " ", "e", "x", "c", "e", "e", "d", "e", "d">>]
            ELSE IF path = "exception"
            THEN [started EXCEPT !.loading = FALSE, !.error = sanitizedError]
            ELSE [started EXCEPT !.rateLimited = FALSE, !.validationErrors = <<>>]
        stages == <<"validateQuery">>
                  \o (IF validation.valid THEN <<"checkRateLimit">> ELSE <<>>)
                  \o (IF path \in {"exception", "passed"} THEN <<"sanitizeVariables">> ELSE <<>>)
        delivered ==
            IF ~callbacks THEN <<>>
            ELSE IF path = "validation"
            THEN <<Delivery("onError", "message", <<"Q", "u", "e", "r", "y", " ", "v", "a", "l", "i", "d", "a", "t", "i", "o", "n", " ", "f", "a", "i", "l", "e", "d">>)>>
            ELSE IF path = "rateLimit"
            THEN <<Delivery("onRateLimit", "resetTime", rateLimitCheck.resetTime)>>
            ELSE IF path = "exception"
            THEN <<Delivery("onError", "message", sanitizedError)>>
            ELSE <<>>
        logged ==
            IF path # "passed" THEN <<>>
            ELSE (IF enableAuditLogging
                  THEN <<[label |-> "Secure GraphQL Query Execution:",
                          query |-> maskQueryForLoggingWith(DEFAULT_MASKING_CONFIG(NODE_ENV),
                                                            document),
                          variables |-> maskVariables(DEFAULT_MASKING_CONFIG(NODE_ENV),
                                                      sanitizedVariables),
                          timestamp |-> now,
                          rateLimitRemaining |-> rateLimitCheck.remaining]>>
                  ELSE <<>>)
                 \o (IF NODE_ENV = "development"
                     THEN <<[label |-> "Query would be executed with variables:",
                             variables |-> sanitizedVariables]>>
                     ELSE <<>>)
    IN  /\ opCount < MaxOps
        /\ gq.path = "none" \/ gq.query # query \/ gq.variables # variables
        /\ IF validation.valid THEN RateLimitStep("default") ELSE UNCHANGED rateVars
        /\ gq' = [state |-> finished, path |-> path, stages |-> stages,
                  delivered |-> delivered, query |-> query, variables |-> variables]
        /\ opCount' = opCount + 1
        /\ consoleOut' = logged
        /\ UNCHANGED <<callVars, RATE_LIMIT, NODE_ENV, now, sq, transport, lastOp, fetches>>

executeQuery(query, variables, callbacks) ==
    \E document \in {QueryDocument(query)} :
        \E validation \in {validateQuery(document)} :
            executeQueryWith(query, variables, callbacks, document, validation,
                             checkRateLimit(rateLimitMap, "default", RATE_LIMIT, now))

InitQuery ==
    /\ InitCommon
    /\ argument = <<>>
    /\ NODE_ENV \in {"production", "development", "test"}

NextQuery ==
    \/ \E query \in QueryNames, variables \in {"none", "script", "throwing"},
          callbacks \in BOOLEAN :
           executeQuery(query, variables, callbacks)
    \/ AdvanceTime

SpecQuery == InitQuery /\ [][NextQuery]_vars


\* the step consulted the rate limiter, and whether it was allowed
RateLimiterConsulted == Len(history') = Len(history) + 1
RateCheckAllowed == RateLimiterConsulted /\ history'[Len(history')].allowed

\* C26: Within one operation the stages happen in the order validation, rate
\* check, sanitizing: the rate limiter is consulted only for a query that
\* passed validation (an invalid query uses no slot of the window), and the
\* sanitizer and the transport are reached only in an operation whose rate
\* check allowed it.
C26_StagesInOrder ==
    [][/\ gq' # gq =>
              /\ gq'.stages[1] = "validateQuery"
              /\ RateLimiterConsulted <=> validateQuery(QueryDocument(gq'.query)).valid
              /\ RateLimiterConsulted <=> (Len(gq'.stages) >= 2 /\ gq'.stages[2] = "checkRateLimit")
              /\ (\E i \in DOMAIN gq'.stages : gq'.stages[i] = "sanitizeVariables") =>
                     /\ RateCheckAllowed
                     /\ gq'.stages = <<"validateQuery", "checkRateLimit", "sanitizeVariables">>
       /\ lastOp'.hook \in SecureApolloHooks \cup {"useRickAndMorty"} =>
              /\ RateLimiterConsulted => lastOp'.valid
              /\ ~(transport' \subseteq transport) => RateCheckAllowed]_vars


\* C27: Every run of executeQuery of useSecureGraphQLQuery leaves the state
\* of the hook with loading = false, on each of its paths: validation
\* failure, denial by the rate limiter, a thrown exception, and the path on
\* which validation and the rate check both pass.
C27_RunLeavesLoadingFalse ==
    gq.path \in {"validation", "rateLimit", "exception", "passed"} => ~gq.state.loading

\* C28: After any sequence of runs of useSecureGraphQLQuery the state
\* reflects the most recent run only: rateLimited is true only if that run
\* was denied by the rate limiter, and validationErrors is non-empty only if
\* that run failed validation.
C28_StateOfMostRecentRun ==
    /\ gq.state.rateLimited => gq.path = "rateLimit"
    /\ gq.state.validationErrors # <<>> => gq.path = "validation"


\* ------------------------------------------------------------------------
\* useSecureQuery over time: renders, the effect, other users of the rate
\* limiter, and the clock
\* ------------------------------------------------------------------------
InitSecureQuery ==
    /\ InitCommon
    /\ argument = <<>>
    /\ RATE_LIMIT = 1
    /\ NODE_ENV = "production"

NextSecureQuery ==
    \/ \E query \in QueryNames, variables \in VariableObjects :
           useSecureQuery_Render(query, variables, FALSE, TRUE)
    \/ useSecureQuery_Effect
    \/ CheckRateLimit("default")
    \/ AdvanceTime

SpecSecureQuery == InitSecureQuery /\ [][NextSecureQuery]_vars

\* the step left query and variables of the mounted hook as they were
\* (enableAuditLogging follows NODE_ENV, which never changes)
InputsUnchanged ==
    sq.mounted /\ sq'.mounted /\ sq'.query = sq.query /\ sq'.variables = sq.variables

\* C29: In useSecureQuery the safety check runs only when query, variables
\* or enableAuditLogging change: the effect is scheduled only by a render
\* that changed them, and once the check has set isQueryValid to false it
\* stays false, and the query stays skipped, for as long as they are
\* unchanged, also after the window of the rate limiter has rolled over.
C29_VerdictKeptWhileInputsUnchanged ==
    [][/\ (sq'.effectPending /\ ~sq.effectPending) => ~InputsUnchanged
       /\ (lastOp' # lastOp /\ lastOp'.step = "effect") => sq.effectPending
       /\ (InputsUnchanged /\ ~sq.effectPending /\ ~sq.isQueryValid) =>
              /\ ~sq'.isQueryValid
              /\ ~sq'.effectPending
              /\ transport' = transport
              /\ history' = history \/ lastOp' = lastOp]_vars

\* the rate limiter denied the check of a valid query, the window has rolled
\* over since, and a render with the same inputs still skipped the query
C29_Witness ==
    /\ sq.mounted /\ ~sq.effectPending /\ ~sq.isQueryValid
    /\ validateQuery(QueryDocument(sq.query)).valid
    /\ "default" \in DOMAIN rateLimitMap
    /\ now > rateLimitMap["default"].resetTime
    /\ lastOp.hook = "useSecureQuery" /\ lastOp.step = "render" /\ lastOp.skip
    /\ lastOp.dispatched = <<>>


\* C30: For every well-formed query the complexity is at least
\* 2^depth - 1 (it has a selection on each of its levels, also when a
\* nested selection set is empty, which adds no level); hence under the
\* default limits, depth 10 and complexity 1000, validateQuery rejects every
\* query of depth 10 or more, and the deepest query that validates has
\* depth 9: the chain of depth 9 does validate.
C30_ComplexityBoundsDepth ==
    (/\ returned.fn = "validateQuery"
     /\ ~AnalysisThrows(argument)
     /\ MAX_QUERY_DEPTH = 10 /\ MAX_QUERY_COMPLEXITY = 1000) =>
        /\ analyzeQueryComplexity(argument) >= 2^ReferenceDepth(argument) - 1
        /\ ReferenceDepth(argument) >= 10 => ~returned.value.valid
        /\ returned.value.valid => ReferenceDepth(argument) <= 9
        /\ argument = createMockQuery(9) => returned.value.valid

\* validateQuery rejected the chain of depth 10, which is within the depth
\* limit, for its complexity of 2^10 - 1 alone
C30_Witness ==
    /\ returned.fn = "validateQuery"
    /\ argument = createMockQuery(10)
    /\ ReferenceDepth(argument) = MAX_QUERY_DEPTH
    /\ returned.value.errors = <<ComplexityError(1023)>>
    /\ ~returned.value.valid

====
